---- MODULE Spec2Model ----
(***************************************************************************)
(* PC Hardware Analyzer: the health scorer (main.py compute_health_score), *)
(* the GPU collector's three-tier fallback (analyzers/gpu_analyzer.py),    *)
(* the collection run of main (main.py main), the external executables it  *)
(* invokes, and the CPU, memory, storage and battery collectors on their   *)
(* own (analyzers/*.py).                                                   *)
(*                                                                         *)
(* Optional values (Python None) are sequences of length at most one:     *)
(* <<>> is None and <<v>> is the value v.                                  *)
(***************************************************************************)
EXTENDS Integers, Sequences, FiniteSets, TLC

VARIABLES
    data,             \* the data dict handed to compute_health_score
    config,           \* the thresholds of config.py, read by the scorer
    result,           \* <<>> before a call returns, <<[score, recommendations]>> after
    calls,            \* compute_health_score: how many calls have returned
    gpu_env,          \* what each GPU tier finds on this host
    gpu_pc,           \* GPUAnalyzer.collect: the statement it is at
    gpu_invoked,      \* the tiers invoked so far, each with what it returned
    gpus,             \* <<>> before collect returns, <<list>> after
    pc,               \* main: the collector or step it is at
    run,              \* main: the keys of its data dict assigned so far
    host,             \* a collector on its own: what its queries find on this host
    probe,            \* a collector on its own: the statement it is at
    record            \* a collector on its own: the record it builds and returns

vars == <<data, config, result, calls, gpu_env, gpu_pc, gpu_invoked, gpus, pc, run,
          host, probe, record>>

scoreVars == <<data, config, result, calls>>
gpuVars == <<gpu_env, gpu_pc, gpu_invoked, gpus>>
mainVars == <<pc, run>>
collectorVars == <<host, probe, record>>

----------------------------------------------------------------------------
(* Bounds of the model *)

MaxDisks == 2
MaxCalls == 2
MaxGpus == 2
MaxMounts == 2
MaxLines == 3
MaxModules == 2
MaxAddrs == 3
MaxReadings == 2
MaxMilli == 60
MaxSlack == 9

----------------------------------------------------------------------------
(* config.py *)

TEMP_CPU_WARNING == 75
TEMP_CPU_CRITICAL == 90
TEMP_DISK_WARNING == 50
RAM_USAGE_WARNING == 75
RAM_USAGE_CRITICAL == 90
DISK_USAGE_CRITICAL == 95
BATTERY_HEALTH_FAIR == 60

thresholds ==
    [TEMP_CPU_WARNING |-> TEMP_CPU_WARNING,
     TEMP_CPU_CRITICAL |-> TEMP_CPU_CRITICAL,
     TEMP_DISK_WARNING |-> TEMP_DISK_WARNING,
     RAM_USAGE_WARNING |-> RAM_USAGE_WARNING,
     RAM_USAGE_CRITICAL |-> RAM_USAGE_CRITICAL,
     DISK_USAGE_CRITICAL |-> DISK_USAGE_CRITICAL,
     BATTERY_HEALTH_FAIR |-> BATTERY_HEALTH_FAIR]

----------------------------------------------------------------------------
(* Python values *)

None == <<>>
Some(v) == <<v>>

\* Truth value of an Optional[float]: None and 0 are false.
Truthy(opt) == opt # None /\ opt[1] # 0

\* x and x > limit, for an Optional[float] x
TruthyAbove(opt, limit) == Truthy(opt) /\ opt[1] > limit

Max(a, b) == IF a >= b THEN a ELSE b
Min(a, b) == IF a <= b THEN a ELSE b

----------------------------------------------------------------------------
(* compute_health_score: the accumulator acc is the pair of locals         *)
(* (score, recommendations); cfg is the config module.                     *)

Recommendation(level, kind, subject, value) ==
    [level |-> level, kind |-> kind, subject |-> subject, value |-> value]

Deduct(acc, points, rec) ==
    [score |-> acc.score - points,
     recommendations |-> Append(acc.recommendations, rec)]

\* Mutant of CpuChecks: the warning check is an "if" of its own, not an "elif".
CpuChecksIndependent(cpu, cfg, acc) ==
    IF cpu = None THEN acc
    ELSE
        LET c == cpu[1]
            afterCritical ==
                IF TruthyAbove(c.temperature, cfg.TEMP_CPU_CRITICAL)
                THEN Deduct(acc, 20, Recommendation("critical", "cpu_temp_critical", <<>>, c.temperature))
                ELSE acc
            afterTemp ==
                IF TruthyAbove(c.temperature, cfg.TEMP_CPU_WARNING)
                THEN Deduct(afterCritical, 10, Recommendation("warning", "cpu_temp_elevated", <<>>, c.temperature))
                ELSE afterCritical
        IN  IF c.is_throttling
            THEN Deduct(afterTemp, 15, Recommendation("critical", "cpu_throttling", <<>>, <<>>))
            ELSE afterTemp

\* main.py 63-82: the CPU checks
CpuChecks(cpu, cfg, acc) ==
    IF cpu = None THEN acc
    ELSE
        LET c == cpu[1]
            afterTemp ==
                IF TruthyAbove(c.temperature, cfg.TEMP_CPU_CRITICAL)
                THEN Deduct(acc, 20, Recommendation("critical", "cpu_temp_critical", <<>>, c.temperature))
                ELSE IF TruthyAbove(c.temperature, cfg.TEMP_CPU_WARNING)
                THEN Deduct(acc, 10, Recommendation("warning", "cpu_temp_elevated", <<>>, c.temperature))
                ELSE acc
        IN  IF c.is_throttling
            THEN Deduct(afterTemp, 15, Recommendation("critical", "cpu_throttling", <<>>, <<>>))
            ELSE afterTemp

\* main.py 85-98: the RAM checks
RamChecks(memory, cfg, acc) ==
    IF memory = None THEN acc
    ELSE
        LET m == memory[1]
        IN  IF m.usage_percent > cfg.RAM_USAGE_CRITICAL
            THEN Deduct(acc, 15, Recommendation("critical", "ram_critical", <<>>, <<m.usage_percent>>))
            ELSE IF m.usage_percent > cfg.RAM_USAGE_WARNING
            THEN Deduct(acc, 8, Recommendation("warning", "ram_high", <<>>, <<m.usage_percent>>))
            ELSE acc

\* Mutant of PartitionChecks: the loop breaks at the first full partition.
RECURSIVE PartitionChecksBreak(_, _, _, _)
PartitionChecksBreak(parts, i, cfg, acc) ==
    IF i > Len(parts) THEN acc
    ELSE IF parts[i].usage_percent > cfg.DISK_USAGE_CRITICAL
         THEN Deduct(acc, 10, Recommendation("critical", "partition_full",
                                             parts[i].mountpoint, <<parts[i].usage_percent>>))
         ELSE PartitionChecksBreak(parts, i + 1, cfg, acc)

\* main.py 114-120: the loop over disk.partitions, from partition i on
RECURSIVE PartitionChecks(_, _, _, _)
PartitionChecks(parts, i, cfg, acc) ==
    IF i > Len(parts) THEN acc
    ELSE
        LET part == parts[i]
            next ==
                IF part.usage_percent > cfg.DISK_USAGE_CRITICAL
                THEN Deduct(acc, 10, Recommendation("critical", "partition_full",
                                                    part.mountpoint, <<part.usage_percent>>))
                ELSE acc
        IN  PartitionChecks(parts, i + 1, cfg, next)

\* Mutant of DiskChecks: the partition loop runs before the SMART checks.
DiskChecksPartitionsFirst(disk, cfg, acc) ==
    LET afterParts == PartitionChecks(disk.partitions, 1, cfg, acc)
        afterSmart ==
            IF disk.smart_status = "FAILED"
            THEN Deduct(afterParts, 30, Recommendation("critical", "smart_failed", disk.name, <<>>))
            ELSE afterParts
    IN  IF TruthyAbove(disk.smart_temperature, cfg.TEMP_DISK_WARNING)
        THEN Deduct(afterSmart, 10, Recommendation("warning", "disk_hot", disk.name, disk.smart_temperature))
        ELSE afterSmart

\* main.py 102-120: the body of the loop over the disks
DiskChecks(disk, cfg, acc) ==
    LET afterSmart ==
            IF disk.smart_status = "FAILED"
            THEN Deduct(acc, 30, Recommendation("critical", "smart_failed", disk.name, <<>>))
            ELSE acc
        afterTemp ==
            IF TruthyAbove(disk.smart_temperature, cfg.TEMP_DISK_WARNING)
            THEN Deduct(afterSmart, 10, Recommendation("warning", "disk_hot", disk.name, disk.smart_temperature))
            ELSE afterSmart
    IN  PartitionChecks(disk.partitions, 1, cfg, afterTemp)

\* main.py 101: for disk in data.get("storage", []), from disk i on
RECURSIVE StorageChecks(_, _, _, _)
StorageChecks(storage, i, cfg, acc) ==
    IF i > Len(storage) THEN acc
    ELSE StorageChecks(storage, i + 1, cfg, DiskChecks(storage[i], cfg, acc))

\* Mutant of BatteryChecks: health_percent is read without looking at present.
BatteryChecksUngated(battery, cfg, acc) ==
    IF battery # None /\ battery[1].health_percent < cfg.BATTERY_HEALTH_FAIR
    THEN Deduct(acc, 15, Recommendation("warning", "battery_poor", <<>>, <<battery[1].health_percent>>))
    ELSE acc

\* main.py 123-130: the battery check
BatteryChecks(battery, cfg, acc) ==
    IF battery # None /\ battery[1].present
    THEN IF battery[1].health_percent < cfg.BATTERY_HEALTH_FAIR
         THEN Deduct(acc, 15, Recommendation("warning", "battery_poor", <<>>, <<battery[1].health_percent>>))
         ELSE acc
    ELSE acc

\* Mutant of Clamp: the lower bound is missing.
ClampUpperOnly(score) == Min(100, score)

\* main.py 133: score = max(0, min(100, score))
Clamp(score) == Max(0, Min(100, score))

\* Mutant of GoodIfEmpty: the 'good' recommendation is appended unconditionally.
GoodAlways(recommendations) ==
    Append(recommendations, Recommendation("good", "all_healthy", <<>>, <<>>))

\* main.py 135-139: if not recommendations: append the 'good' one
GoodIfEmpty(recommendations) ==
    IF recommendations = <<>>
    THEN <<Recommendation("good", "all_healthy", <<>>, <<>>)>>
    ELSE recommendations

\* main.py 54-141
compute_health_score(d, cfg) ==
    LET start == [score |-> 100, recommendations |-> <<>>]
        afterCpu == CpuChecks(d.cpu, cfg, start)
        afterRam == RamChecks(d.memory, cfg, afterCpu)
        afterStorage == StorageChecks(d.storage, 1, cfg, afterRam)
        afterBattery == BatteryChecks(d.battery, cfg, afterStorage)
    IN  [score |-> Clamp(afterBattery.score),
         recommendations |-> GoodIfEmpty(afterBattery.recommendations)]

----------------------------------------------------------------------------
(* The inputs of the scorer *)

CpuTemperatures == {None, Some(75), Some(76), Some(90), Some(91)}
RamUsages == {75, 76, 90, 91}
SmartStatuses == {"PASSED", "FAILED"}
DiskTemperatures == {None, Some(50), Some(51)}
\* The usages of one disk's partitions, in mount order: no accessible
\* partition, or three of which the first and the last are over the threshold.
PartitionLists == {<<>>, <<96, 95, 96>>}

SeqsUpTo(S, n) == UNION {[1..k -> S] : k \in 0..n}

CpuRecords == [temperature : CpuTemperatures, is_throttling : BOOLEAN]
MemoryRecords == [usage_percent : RamUsages]
\* health_percent of an absent battery is a default that must not be read.
BatteryRecords ==
    {[present |-> FALSE, health_percent |-> 59],
     [present |-> TRUE, health_percent |-> 59],
     [present |-> TRUE, health_percent |-> 60]}

\* A disk before it is named: SMART status, SMART temperature, partition usages.
DiskShapes ==
    [smart_status : SmartStatuses,
     smart_temperature : DiskTemperatures,
     usages : PartitionLists]

\* Disk i of the list is named <<i>>, its partition j is mounted at <<i, j>>.
NamedDisk(shape, i) ==
    [name |-> <<i>>,
     smart_status |-> shape.smart_status,
     smart_temperature |-> shape.smart_temperature,
     partitions |-> [j \in 1..Len(shape.usages) |->
                        [mountpoint |-> <<i, j>>, usage_percent |-> shape.usages[j]]]]

StorageLists ==
    {[i \in 1..Len(shapes) |-> NamedDisk(shapes[i], i)] : shapes \in SeqsUpTo(DiskShapes, MaxDisks)}

Snapshots ==
    [cpu : {Some(c) : c \in CpuRecords},
     memory : {Some(m) : m \in MemoryRecords},
     storage : StorageLists,
     battery : {Some(b) : b \in BatteryRecords}]

----------------------------------------------------------------------------
(* The scorer, called on one snapshot *)

IdleGpu ==
    /\ gpu_env = <<>>
    /\ gpu_pc = "idle"
    /\ gpu_invoked = <<>>
    /\ gpus = <<>>

IdleMain ==
    /\ pc = "idle"
    /\ run = {}

IdleCollector ==
    /\ host = <<>>
    /\ probe = "idle"
    /\ record = <<>>

InitScore ==
    /\ data \in Snapshots
    /\ config = thresholds
    /\ result = <<>>
    /\ calls = 0
    /\ IdleGpu
    /\ IdleMain
    /\ IdleCollector

\* Mutant of Call: the recommendations list outlives the call (a shared
\* default list), so a further call appends to what the last one returned.
CallSharedList ==
    /\ LET r == compute_health_score(data, config)
       IN  result' = <<[score |-> r.score,
                        recommendations |->
                            (IF result = <<>> THEN <<>> ELSE result[1].recommendations)
                                \o r.recommendations]>>
    /\ calls' = calls + 1
    /\ UNCHANGED <<data, config>>
    /\ UNCHANGED gpuVars
    /\ UNCHANGED mainVars
    /\ UNCHANGED collectorVars

\* health_score, recommendations = compute_health_score(data): the call
\* reads data and config, and returns a pair built from fresh locals.
Call ==
    /\ result' = <<compute_health_score(data, config)>>
    /\ calls' = calls + 1
    /\ UNCHANGED <<data, config>>
    /\ UNCHANGED gpuVars
    /\ UNCHANGED mainVars
    /\ UNCHANGED collectorVars

\* The call main makes on the snapshot.
Evaluate == calls = 0 /\ Call

\* A further call on the same snapshot and thresholds.
EvaluateAgain == calls > 0 /\ calls < MaxCalls /\ Call

NextScore == Evaluate

SpecScore == InitScore /\ [][NextScore]_vars

NextRepeat == Evaluate \/ EvaluateAgain

SpecRepeat == InitScore /\ [][NextRepeat]_vars

----------------------------------------------------------------------------
(* The deduction table of the health scorer, stated on the snapshot alone. *)
(* The properties below compare what a call returned against it.           *)

Returned == result # <<>>
ReturnedScore == result[1].score
ReturnedRecs == result[1].recommendations

Above(opt, limit) == opt # <<>> /\ opt[1] > limit

CpuTempCritical == Above(data.cpu[1].temperature, 90)
CpuTempWarning == Above(data.cpu[1].temperature, 75) /\ ~CpuTempCritical
CpuThrottling == data.cpu[1].is_throttling
RamCritical == data.memory[1].usage_percent > 90
RamWarning == data.memory[1].usage_percent > 75 /\ ~RamCritical
FailedDisks == {i \in 1..Len(data.storage) : data.storage[i].smart_status = "FAILED"}
HotDisks == {i \in 1..Len(data.storage) : Above(data.storage[i].smart_temperature, 50)}
FullPartitions ==
    {<<i, j>> \in (1..Len(data.storage)) \X (1..3) :
        /\ j <= Len(data.storage[i].partitions)
        /\ data.storage[i].partitions[j].usage_percent > 95}
BatteryPoor == data.battery[1].present /\ data.battery[1].health_percent < 60

CpuTempPoints == IF CpuTempCritical THEN 20 ELSE IF CpuTempWarning THEN 10 ELSE 0
RamPoints == IF RamCritical THEN 15 ELSE IF RamWarning THEN 8 ELSE 0
StoragePoints ==
    30 * Cardinality(FailedDisks) + 10 * Cardinality(HotDisks) + 10 * Cardinality(FullPartitions)
BatteryPoints == IF BatteryPoor THEN 15 ELSE 0

Deductions ==
    CpuTempPoints + (IF CpuThrottling THEN 15 ELSE 0) + RamPoints + StoragePoints + BatteryPoints

\* The number of conditions of the table that fire on the snapshot.
FiredCount ==
    (IF CpuTempCritical \/ CpuTempWarning THEN 1 ELSE 0) + (IF CpuThrottling THEN 1 ELSE 0)
    + (IF RamCritical \/ RamWarning THEN 1 ELSE 0)
    + Cardinality(FailedDisks) + Cardinality(HotDisks) + Cardinality(FullPartitions)
    + (IF BatteryPoor THEN 1 ELSE 0)

RecsOfKinds(kinds) == SelectSeq(ReturnedRecs, LAMBDA r : r.kind \in kinds)
CpuTempRecs == RecsOfKinds({"cpu_temp_critical", "cpu_temp_elevated"})
RamRecs == RecsOfKinds({"ram_critical", "ram_high"})
BatteryRecs == RecsOfKinds({"battery_poor"})
NonGoodRecs == SelectSeq(ReturnedRecs, LAMBDA r : r.level # "good")
GoodRecs == SelectSeq(ReturnedRecs, LAMBDA r : r.level = "good")

----------------------------------------------------------------------------
\* C1: whatever the snapshot, the score a call returns is an integer between
\* 0 and 100; it is 0, not negative, when the deductions exceed 100.
C1_ScoreInRange ==
    Returned =>
        /\ ReturnedScore \in 0..100
        /\ (Deductions > 100 => ReturnedScore = 0)

\* A call returned on a snapshot whose deductions sum to more than 100.
C1_Witness == Returned /\ Deductions > 100 /\ ReturnedScore = 0

\* C2: the returned score is max(0, 100 - D), D the sum of the independent
\* deductions of the table, accumulated per disk and per partition.
C2_ScoreIsHundredMinusDeductions ==
    Returned =>
        LET D == Deductions
        IN  ReturnedScore = (IF D > 100 THEN 0 ELSE 100 - D)

\* CPU over the critical temperature and throttling, nothing else: 65; and a
\* snapshot on which a FAILED disk and full partitions add up.
C2_Witness ==
    /\ Returned
    /\ CpuTempCritical /\ CpuThrottling /\ Deductions = 35 /\ ReturnedScore = 65

C2_WitnessStorage ==
    /\ Returned
    /\ Cardinality(FailedDisks) = 1 /\ Cardinality(FullPartitions) = 2
    /\ Deductions = 50 /\ ReturnedScore = 50

\* C3: the critical and the warning check of CPU temperature exclude each
\* other, and so do those of RAM usage: at most one recommendation each, the
\* critical one alone above the critical threshold, the warning one alone
\* above the warning threshold and not above the critical one; with nothing
\* else firing the score loses 20 or 10 (CPU) plus 15 or 8 (RAM), never both.
C3_CriticalExcludesWarning ==
    Returned =>
        LET temp == data.cpu[1].temperature
            usage == data.memory[1].usage_percent
            cpuRecs == CpuTempRecs
            ramRecs == RamRecs
        IN  /\ Len(cpuRecs) <= 1
            /\ Len(ramRecs) <= 1
            /\ (Above(temp, 90) => Len(cpuRecs) = 1 /\ cpuRecs[1].level = "critical")
            /\ (Above(temp, 75) /\ ~Above(temp, 90) =>
                    Len(cpuRecs) = 1 /\ cpuRecs[1].level = "warning")
            /\ (~Above(temp, 75) => cpuRecs = <<>>)
            /\ (usage > 90 => Len(ramRecs) = 1 /\ ramRecs[1].level = "critical")
            /\ (usage > 75 /\ usage <= 90 => Len(ramRecs) = 1 /\ ramRecs[1].level = "warning")
            /\ (usage <= 75 => ramRecs = <<>>)
            /\ (~CpuThrottling /\ StoragePoints = 0 /\ BatteryPoints = 0 =>
                    ReturnedScore =
                        100 - (IF Above(temp, 90) THEN 20 ELSE IF Above(temp, 75) THEN 10 ELSE 0)
                            - (IF usage > 90 THEN 15 ELSE IF usage > 75 THEN 8 ELSE 0))

\* CPU and RAM both over their critical thresholds, nothing else: 100 - 20 - 15.
C3_Witness ==
    /\ Returned
    /\ CpuTempCritical /\ RamCritical
    /\ ~CpuThrottling /\ StoragePoints = 0 /\ BatteryPoints = 0
    /\ ReturnedScore = 65 /\ Len(ReturnedRecs) = 2

\* CPU at the critical threshold itself (90): the warning alone.
C3_WitnessWarning ==
    /\ Returned
    /\ data.cpu[1].temperature = <<90>> /\ Len(CpuTempRecs) = 1
    /\ CpuTempRecs[1].level = "warning"

----------------------------------------------------------------------------
(* The order of the recommendations: each one's place in the domain order  *)
(* CPU temperature, CPU throttling, RAM, storage (disk, then within the    *)
(* disk SMART status, SMART temperature, partitions), battery; a          *)
(* recommendation earlier in that order has the smaller rank.              *)

RankOf(r) ==
    CASE r.kind \in {"cpu_temp_critical", "cpu_temp_elevated"} -> 10000
      [] r.kind = "cpu_throttling" -> 20000
      [] r.kind \in {"ram_critical", "ram_high"} -> 30000
      [] r.kind = "smart_failed" -> 40000 + 100 * r.subject[1] + 10
      [] r.kind = "disk_hot" -> 40000 + 100 * r.subject[1] + 20
      [] r.kind = "partition_full" -> 40000 + 100 * r.subject[1] + 30 + r.subject[2]
      [] r.kind = "battery_poor" -> 50000
      [] OTHER -> 0

When(cond, rec) == IF cond THEN {rec} ELSE {}

\* The recommendation the table asks for, one per fired condition.
ExpectedRecs ==
    When(CpuTempCritical, Recommendation("critical", "cpu_temp_critical", <<>>, data.cpu[1].temperature))
    \cup When(CpuTempWarning, Recommendation("warning", "cpu_temp_elevated", <<>>, data.cpu[1].temperature))
    \cup When(CpuThrottling, Recommendation("critical", "cpu_throttling", <<>>, <<>>))
    \cup When(RamCritical, Recommendation("critical", "ram_critical", <<>>, <<data.memory[1].usage_percent>>))
    \cup When(RamWarning, Recommendation("warning", "ram_high", <<>>, <<data.memory[1].usage_percent>>))
    \cup {Recommendation("critical", "smart_failed", <<i>>, <<>>) : i \in FailedDisks}
    \cup {Recommendation("warning", "disk_hot", <<i>>, data.storage[i].smart_temperature) : i \in HotDisks}
    \cup {Recommendation("critical", "partition_full", p, <<data.storage[p[1]].partitions[p[2]].usage_percent>>) : p \in FullPartitions}
    \cup When(BatteryPoor, Recommendation("warning", "battery_poor", <<>>, <<data.battery[1].health_percent>>))

\* C4: one recommendation per fired condition and nothing else, in domain
\* order: CPU temperature, CPU throttling, RAM, then disk by disk in input
\* order (SMART FAILED, SMART temperature, the disk's partitions in order),
\* then battery; as many non-good recommendations as fired conditions.
\* (Each recommendation ranks strictly after the one before it, so the whole
\* list is strictly ordered.)
C4_DomainOrder ==
    Returned =>
        LET recs == NonGoodRecs
        IN  /\ \A i \in 1..(Len(recs) - 1) : RankOf(recs[i]) < RankOf(recs[i + 1])
            /\ {recs[i] : i \in 1..Len(recs)} = ExpectedRecs
            /\ Len(recs) = FiredCount

\* Every domain fires, the first disk with SMART, temperature and two
\* partitions, and the second disk too.
C4_Witness ==
    /\ Returned
    /\ CpuTempCritical /\ CpuThrottling /\ RamWarning /\ BatteryPoor
    /\ FailedDisks = {1, 2} /\ HotDisks = {1}
    /\ FullPartitions = {<<1, 1>>, <<1, 3>>, <<2, 1>>, <<2, 3>>}
    /\ Len(ReturnedRecs) = 11

\* C5: the list is never empty; it holds a 'good' recommendation exactly when
\* no condition fired, and then it is that one recommendation and the score
\* is 100; 'good' never comes with a warning or a critical one.
C5_GoodIffNothingFired ==
    Returned =>
        /\ ReturnedRecs # <<>>
        /\ (GoodRecs # <<>> <=> FiredCount = 0)
        /\ (FiredCount = 0 =>
                /\ Len(ReturnedRecs) = 1
                /\ ReturnedRecs[1].level = "good"
                /\ ReturnedScore = 100)
        /\ (GoodRecs # <<>> => NonGoodRecs = <<>>)

\* A healthy snapshot with disks and an absent battery was scored.
C5_Witness ==
    /\ Returned
    /\ FiredCount = 0 /\ Len(data.storage) = 2 /\ ~data.battery[1].present
    /\ Len(GoodRecs) = 1 /\ ReturnedScore = 100

OtherPoints == CpuTempPoints + (IF CpuThrottling THEN 15 ELSE 0) + RamPoints + StoragePoints

C7_BatteryGatedOnPresence ==
    Returned =>
        /\ (~data.battery[1].present =>
                /\ BatteryRecs = <<>>
                /\ LET other == OtherPoints
                   IN  ReturnedScore = (IF other > 100 THEN 0 ELSE 100 - other))
        /\ (data.battery[1].present /\ data.battery[1].health_percent < 60 =>
                LET other == OtherPoints
                    batteryRecs == BatteryRecs
                IN  /\ Len(batteryRecs) = 1
                    /\ batteryRecs[1].level = "warning"
                    /\ ReturnedScore = (IF other + 15 > 100 THEN 0 ELSE 100 - other - 15)
                    /\ (other = 0 => ReturnedScore = 85 /\ Len(ReturnedRecs) = 1))

\* An absent battery whose health_percent is under the threshold was scored.
C7_Witness ==
    /\ Returned
    /\ ~data.battery[1].present /\ data.battery[1].health_percent < 60
    /\ OtherPoints = 0 /\ ReturnedScore = 100

\* A present battery at health 59 and nothing else: 85.
C7_WitnessPresent ==
    /\ Returned
    /\ data.battery[1].present /\ data.battery[1].health_percent = 59
    /\ OtherPoints = 0 /\ ReturnedScore = 85

----------------------------------------------------------------------------
(* GPUAnalyzer (analyzers/gpu_analyzer.py).  A GPUData is modelled by its   *)
(* name, index, temperature and driver_version; the other fields follow the *)
(* same pattern (a reading or the dataclass default).                       *)

GPUData(name, index, temperature, driver_version) ==
    [name |-> name, index |-> index, temperature |-> temperature,
     driver_version |-> driver_version]

\* GPUData(): every field at its default
DefaultGPUData == GPUData("Not Available", 0, None, "N/A")

\* What the host offers to each tier.
\*   gputil:   import GPUtil / GPUtil.getGPUs() raises, or lists these devices
\*   smi:      nvidia-smi is missing, fails or times out (check_output
\*             raises), or prints these lines, one per device:
\*               "full"     12 fields, every metric a number
\*               "na_temp"  12 fields, temperature.gpu is [N/A]
\*               "na_mem"   12 fields, memory.total is [N/A]
\*               "short"    fewer than 12 fields
\*   system:   platform.system()
\*   native:   the OS tool (WMI, system_profiler, lspci) raises, or reports
\*             these device names
GpuNames == {"GPU A", "GPU B"}
SmiLineKinds == {"full", "na_temp", "na_mem", "short"}
Systems == {"Windows", "Darwin", "Linux", "Other"}

Raises == [raises |-> TRUE, out |-> <<>>]
Returns(out) == [raises |-> FALSE, out |-> out]

GpuEnvs ==
    {e \in [gputil : {Raises} \cup {Returns(l) : l \in SeqsUpTo(GpuNames, MaxGpus)},
            smi : {Raises} \cup {Returns(l) : l \in SeqsUpTo(SmiLineKinds, MaxGpus)},
            system : Systems,
            native : {Raises} \cup {Returns(l) : l \in SeqsUpTo(GpuNames, MaxGpus)}] :
        \* no OS tool is run on another system: one environment stands for all
        e.system = "Other" => e.native = Raises}

\* gpu_analyzer.py 40-62
try_gputil(env) ==
    IF env.gputil.raises THEN <<>>
    ELSE [i \in 1..Len(env.gputil.out) |->
            GPUData(env.gputil.out[i], i - 1, Some(60), "driver")]

\* gpu_analyzer.py 79-80: the lines that are parsed (12 fields or more)
ParsedLines(lines) == SelectSeq(lines, LAMBDA kind : kind # "short")

\* gpu_analyzer.py 64-98: float("[N/A]") on a memory field raises ValueError,
\* which the except around the whole loop turns into [].
try_nvidia_smi(env) ==
    IF env.smi.raises THEN <<>>
    ELSE IF \E i \in 1..Len(env.smi.out) : env.smi.out[i] = "na_mem" THEN <<>>
    ELSE LET lines == ParsedLines(env.smi.out)
         IN  [i \in 1..Len(lines) |->
                GPUData("NVIDIA GPU", i - 1,
                        IF lines[i] = "na_temp" THEN None ELSE Some(60),
                        "driver")]

\* gpu_analyzer.py 110-165: _windows_gpu, _macos_gpu, _linux_gpu
native_gpus(env) ==
    IF env.native.raises THEN <<>>
    ELSE [i \in 1..Len(env.native.out) |->
            GPUData(env.native.out[i], i - 1, None,
                    IF env.system = "Windows" THEN "driver" ELSE "N/A")]

\* gpu_analyzer.py 100-108
try_platform_tools(env) ==
    IF env.system \in {"Windows", "Darwin", "Linux"} THEN native_gpus(env) ELSE <<>>

\* gpu_analyzer.py 25-38, as one expression
GPUAnalyzer_collect(env) ==
    IF try_gputil(env) # <<>> THEN try_gputil(env)
    ELSE IF try_nvidia_smi(env) # <<>> THEN try_nvidia_smi(env)
    ELSE IF try_platform_tools(env) # <<>> THEN try_platform_tools(env)
    ELSE <<DefaultGPUData>>

Invocation(tier, returned) == [tier |-> tier, returned |-> returned]

IdleScore ==
    /\ data = <<>>
    /\ config = thresholds
    /\ result = <<>>
    /\ calls = 0

InitGpu ==
    /\ gpu_env \in GpuEnvs
    /\ gpu_pc = "gputil"
    /\ gpu_invoked = <<>>
    /\ gpus = <<>>
    /\ IdleScore
    /\ IdleMain
    /\ IdleCollector

\* Mutant of TryGputil: the early return is missing.
TryGputilNoReturn ==
    /\ gpu_pc = "gputil"
    /\ gpu_invoked' = Append(gpu_invoked, Invocation("gputil", try_gputil(gpu_env)))
    /\ gpu_pc' = "nvidia_smi"
    /\ UNCHANGED <<gpu_env, gpus>>
    /\ UNCHANGED scoreVars
    /\ UNCHANGED mainVars
    /\ UNCHANGED collectorVars

\* gpu_analyzer.py 26-28
TryGputil ==
    /\ gpu_pc = "gputil"
    /\ LET r == try_gputil(gpu_env)
       IN  /\ gpu_invoked' = Append(gpu_invoked, Invocation("gputil", r))
           /\ IF r # <<>>
              THEN gpus' = <<r>> /\ gpu_pc' = "done"
              ELSE gpus' = gpus /\ gpu_pc' = "nvidia_smi"
    /\ UNCHANGED gpu_env
    /\ UNCHANGED scoreVars
    /\ UNCHANGED mainVars
    /\ UNCHANGED collectorVars

\* gpu_analyzer.py 30-32
TryNvidiaSmi ==
    /\ gpu_pc = "nvidia_smi"
    /\ LET r == try_nvidia_smi(gpu_env)
       IN  /\ gpu_invoked' = Append(gpu_invoked, Invocation("nvidia_smi", r))
           /\ IF r # <<>>
              THEN gpus' = <<r>> /\ gpu_pc' = "done"
              ELSE gpus' = gpus /\ gpu_pc' = "platform_tools"
    /\ UNCHANGED gpu_env
    /\ UNCHANGED scoreVars
    /\ UNCHANGED mainVars
    /\ UNCHANGED collectorVars

\* Mutant of TryPlatformTools: the last tier's list is returned as it is,
\* empty or not.
TryPlatformToolsNoSentinel ==
    /\ gpu_pc = "platform_tools"
    /\ gpu_invoked' = Append(gpu_invoked, Invocation("platform_tools", try_platform_tools(gpu_env)))
    /\ gpus' = <<try_platform_tools(gpu_env)>>
    /\ gpu_pc' = "done"
    /\ UNCHANGED gpu_env
    /\ UNCHANGED scoreVars
    /\ UNCHANGED mainVars
    /\ UNCHANGED collectorVars

\* gpu_analyzer.py 34-38
TryPlatformTools ==
    /\ gpu_pc = "platform_tools"
    /\ LET r == try_platform_tools(gpu_env)
       IN  /\ gpu_invoked' = Append(gpu_invoked, Invocation("platform_tools", r))
           /\ gpus' = <<IF r # <<>> THEN r ELSE <<DefaultGPUData>>>>
    /\ gpu_pc' = "done"
    /\ UNCHANGED gpu_env
    /\ UNCHANGED scoreVars
    /\ UNCHANGED mainVars
    /\ UNCHANGED collectorVars

NextGpu == TryGputil \/ TryNvidiaSmi \/ TryPlatformTools

SpecGpu == InitGpu /\ [][NextGpu]_vars

----------------------------------------------------------------------------
CollectReturned == gpu_pc = "done"
ReturnedGpus == gpus[1]
TierOrder == <<"gputil", "nvidia_smi", "platform_tools">>
InvokedTiers == {gpu_invoked[i].tier : i \in 1..Len(gpu_invoked)}
AllTiersEmpty ==
    /\ Len(gpu_invoked) = 3
    /\ \A i \in 1..3 : gpu_invoked[i].returned = <<>>

\* C8: collect always returns a list of at least one record, whatever each
\* tier does (returns devices, returns nothing, raises); the list is the one
\* sentinel record named 'Not Available' exactly when all three tiers yielded
\* no GPU.
C8_SentinelGuarantee ==
    CollectReturned =>
        /\ gpus # <<>>
        /\ Len(ReturnedGpus) >= 1
        /\ ((Len(ReturnedGpus) = 1 /\ ReturnedGpus[1].name = "Not Available") <=> AllTiersEmpty)
        /\ (AllTiersEmpty => ReturnedGpus = <<DefaultGPUData>>)

\* The library raises, nvidia-smi prints a line that does not parse and the
\* OS tool finds nothing: the sentinel is returned.
C8_Witness ==
    /\ CollectReturned
    /\ gpu_env.gputil.raises
    /\ ~gpu_env.smi.raises /\ gpu_env.smi.out # <<>>
    /\ ~gpu_env.native.raises /\ gpu_env.system = "Linux"
    /\ ReturnedGpus = <<DefaultGPUData>>

\* C9: the tiers are tried in the order GPU library, nvidia-smi, OS tools,
\* and a tier is invoked only if every earlier one returned nothing: once a
\* tier returns a non-empty list no later tier is invoked and collect returns
\* that list as it is, not merged with another tier's.
C9_FixedOrderFirstNonEmptyWins ==
    /\ Len(gpu_invoked) <= 3
    /\ \A i \in 1..Len(gpu_invoked) :
            /\ gpu_invoked[i].tier = TierOrder[i]
            /\ (i < Len(gpu_invoked) => gpu_invoked[i].returned = <<>>)
    /\ (CollectReturned =>
            LET last == gpu_invoked[Len(gpu_invoked)]
            IN  /\ gpu_invoked # <<>>
                /\ (last.returned # <<>> => ReturnedGpus = last.returned)
                /\ (last.returned = <<>> => Len(gpu_invoked) = 3))
    /\ (~CollectReturned => gpu_pc = TierOrder[Len(gpu_invoked) + 1])

\* The library lists two devices while nvidia-smi and the OS tool would list
\* some too: only the library was invoked and its list is what is returned.
C9_Witness ==
    /\ CollectReturned
    /\ InvokedTiers = {"gputil"}
    /\ Len(ReturnedGpus) = 2
    /\ try_nvidia_smi(gpu_env) # <<>>
    /\ try_platform_tools(gpu_env) # <<>>

\* nvidia-smi wins after the library found nothing; the OS tool is not run.
C9_WitnessSecondTier ==
    /\ CollectReturned
    /\ InvokedTiers = {"gputil", "nvidia_smi"}
    /\ ReturnedGpus = try_nvidia_smi(gpu_env)
    /\ try_platform_tools(gpu_env) # <<>>

----------------------------------------------------------------------------
(* The collectors as main calls them.  Each reads the host through calls   *)
(* that sit outside any try (the psutil queries: os_raises says that one of *)
(* them raises) and through probes wrapped in try/except, whose failure    *)
(* leaves the default.  A collector returns its record or raises.          *)

\* Mutant of detect_throttling: the temperature test is >= 85.
detect_throttling_from_85(frequency_current, frequency_max, temperature) ==
    /\ frequency_current # 0 /\ frequency_max # 0
    /\ 4 * frequency_current < 3 * frequency_max
    /\ Truthy(temperature) /\ temperature[1] >= 85

\* cpu_analyzer.py 72-77: ratio = current / max < 0.75, in integers
detect_throttling(frequency_current, frequency_max, temperature) ==
    /\ frequency_current # 0 /\ frequency_max # 0
    /\ 4 * frequency_current < 3 * frequency_max
    /\ TruthyAbove(temperature, 85)

\* round(x, 1) of a reading given in hundredths of a degree, in tenths; a
\* reading half-way between two tenths goes to the even one.
Round1(centi) ==
    LET q == centi \div 10
        r == centi % 10
    IN  IF r > 5 \/ (r = 5 /\ q % 2 = 1) THEN q + 1 ELSE q

\* cpu_analyzer.py 65
SensorKeys == <<"coretemp", "cpu_thermal", "k10temp", "acpitz">>

\* cpu_analyzer.py 65-67: the loop over the keys, from the k-th on.  temps
\* maps a group name to None when the dict has no such key, else to
\* Some(its list of readings).
RECURSIVE SensorReading(_, _, _)
SensorReading(temps, keys, k) ==
    IF k > Len(keys) THEN None
    ELSE IF temps[keys[k]] # None /\ temps[keys[k]][1] # <<>>
    THEN Some(Round1(temps[keys[k]][1][1]))
    ELSE SensorReading(temps, keys, k + 1)

\* A variant that looks at acpitz first.
get_cpu_temp_acpitz_first(sensors) ==
    IF sensors.raises THEN None
    ELSE IF \A g \in DOMAIN sensors.out : sensors.out[g] = None THEN None
    ELSE SensorReading(sensors.out, <<"acpitz", "coretemp", "cpu_thermal", "k10temp">>, 1)

\* cpu_analyzer.py 60-70: sensors is what psutil.sensors_temperatures() does;
\* the result is in tenths of a degree.
get_cpu_temp(sensors) ==
    IF sensors.raises THEN None
    ELSE IF \A g \in DOMAIN sensors.out : sensors.out[g] = None THEN None
    ELSE SensorReading(sensors.out, SensorKeys, 1)

\* cpu_analyzer.py 35-58: cpu_count, cpu_percent, cpu_freq and cpu_stats are
\* called outside any try; _get_cpu_temp catches and returns None.
CPUAnalyzer_collect(env) ==
    IF env.os_raises THEN Raises
    ELSE Returns([temperature |-> env.temperature,
                  is_throttling |-> detect_throttling(env.frequency_current,
                                                      env.frequency_max, env.temperature)])

CpuEnvs ==
    [os_raises : BOOLEAN,
     temperature : {None, Some(80), Some(91)},
     frequency_current : {0, 2000, 3000},
     frequency_max : {3000}]

\* memory_analyzer.py 9-22: the module metadata of MemoryData()
DefaultModules ==
    [memory_type |-> "Unknown", speed_mhz |-> None, slots_used |-> 0,
     slots_total |-> 0, channel_mode |-> "Unknown"]

KnownMemoryTypes == {"DDR4", "DDR5", "DDR3", "LPDDR4", "LPDDR5"}

\* A line of tool output: its key, the integer after the colon if it has
\* one that int() parses, and the rest of its text.
Line(key, number, text) == [key |-> key, number |-> number, text |-> text]

\* memory_analyzer.py 74-77, 93-96, 130-133
WithChannelMode(md, slots_used) ==
    IF slots_used >= 2 THEN [md EXCEPT !.channel_mode = "Dual Channel"]
    ELSE IF slots_used = 1 THEN [md EXCEPT !.channel_mode = "Single Channel"]
    ELSE md

\* An exception caught by the probe's "except Exception: pass": the record
\* stays as it is at that point.
ProbeFailed(md) == [data |-> md, failed |-> TRUE]
ProbeDone(md) == [data |-> md, failed |-> FALSE]

\* memory_analyzer.py 57-77: the loop over the lines of dmidecode, from line
\* i on, then the slot counts and the channel mode.  speed_mhz and
\* memory_type are written to the record inside the loop; int() of the
\* slot total raises ValueError on a value that is no integer.
RECURSIVE DmiLines(_, _, _, _, _)
DmiLines(lines, i, md, slots_total, slots_used) ==
    IF i > Len(lines)
    THEN ProbeDone(WithChannelMode([md EXCEPT !.slots_total = slots_total,
                                                !.slots_used = slots_used], slots_used))
    ELSE
        LET line == lines[i]
        IN  IF line.key = "Number Of Devices"
            THEN (IF line.number = None THEN ProbeFailed(md)
                  ELSE DmiLines(lines, i + 1, md, line.number[1], slots_used))
            ELSE IF line.key = "Size" /\ line.text # "No Module Installed"
            THEN DmiLines(lines, i + 1, md, slots_total, slots_used + 1)
            ELSE IF line.key = "Speed" /\ line.text # "Unknown"
            THEN DmiLines(lines, i + 1,
                          IF line.number # None THEN [md EXCEPT !.speed_mhz = line.number]
                          ELSE md,
                          slots_total, slots_used)
            ELSE IF line.key = "Type" /\ line.text # "Unknown"
            THEN DmiLines(lines, i + 1,
                          IF line.text \in KnownMemoryTypes
                          THEN [md EXCEPT !.memory_type = line.text] ELSE md,
                          slots_total, slots_used)
            ELSE DmiLines(lines, i + 1, md, slots_total, slots_used)

\* memory_analyzer.py 50-79
collect_linux_dmi(md, dmidecode) ==
    IF dmidecode.raises THEN ProbeFailed(md)
    ELSE DmiLines(dmidecode.out, 1, md, 0, 0)

\* memory_analyzer.py 91-92
SmbiosType(code) ==
    CASE code = 20 -> "DDR"
      [] code = 21 -> "DDR2"
      [] code = 24 -> "DDR3"
      [] code = 26 -> "DDR4"
      [] code = 34 -> "DDR5"
      [] OTHER -> "Unknown"

\* memory_analyzer.py 87-92: the loop over the modules, from module i on.
\* Reading a property of a module WMI cannot serve raises.
RECURSIVE WmiModules(_, _, _)
WmiModules(modules, i, md) ==
    IF i > Len(modules) THEN ProbeDone(md)
    ELSE
        LET m == modules[i]
        IN  IF m.unreadable THEN ProbeFailed(md)
            ELSE
                LET withSpeed == IF Truthy(m.Speed)
                                 THEN [md EXCEPT !.speed_mhz = m.Speed] ELSE md
                    withType == IF Truthy(m.SMBIOSMemoryType)
                                THEN [withSpeed EXCEPT
                                        !.memory_type = SmbiosType(m.SMBIOSMemoryType[1])]
                                ELSE withSpeed
                IN  WmiModules(modules, i + 1, withType)

\* memory_analyzer.py 81-107: slots_used is written before the loop over
\* the modules; the query for the slot total has a try of its own.
collect_windows_wmi(md, wmi) ==
    IF wmi.raises THEN ProbeFailed(md)
    ELSE
        LET counted == [md EXCEPT !.slots_used = Len(wmi.out.modules)]
            looped == WmiModules(wmi.out.modules, 1, counted)
        IN  IF looped.failed THEN looped
            ELSE
                LET moded == WithChannelMode(looped.data, looped.data.slots_used)
                    arrays == wmi.out.arrays
                IN  ProbeDone(
                        IF arrays.raises THEN [moded EXCEPT !.slots_total = moded.slots_used]
                        ELSE IF arrays.out = <<>> THEN moded
                        ELSE [moded EXCEPT !.slots_total =
                                IF Truthy(arrays.out[1]) THEN arrays.out[1][1] ELSE 0])

\* memory_analyzer.py 115-133: the loop over the lines of system_profiler,
\* from line i on, then the slot counts and the channel mode.
RECURSIVE ProfilerLines(_, _, _, _)
ProfilerLines(lines, i, md, slots_used) ==
    IF i > Len(lines)
    THEN ProbeDone(WithChannelMode([md EXCEPT !.slots_used = slots_used,
                                                !.slots_total = slots_used], slots_used))
    ELSE
        LET line == lines[i]
        IN  IF line.key = "Speed"
            THEN ProfilerLines(lines, i + 1,
                               IF line.number # None THEN [md EXCEPT !.speed_mhz = line.number]
                               ELSE md,
                               slots_used)
            ELSE IF line.key = "Type"
            THEN ProfilerLines(lines, i + 1,
                               IF line.text \in KnownMemoryTypes
                               THEN [md EXCEPT !.memory_type = line.text] ELSE md,
                               slots_used)
            ELSE IF line.key = "Size" /\ line.text # "Empty"
            THEN ProfilerLines(lines, i + 1, md, slots_used + 1)
            ELSE ProfilerLines(lines, i + 1, md, slots_used)

\* memory_analyzer.py 109-135
collect_macos_system_profiler(md, profiler) ==
    IF profiler.raises THEN ProbeFailed(md)
    ELSE ProfilerLines(profiler.out, 1, md, 0)

\* round(x, 2) of a size given in thousandths of a GB, in hundredths
\* (ties to the even hundredth).
Round2(milli) ==
    LET q == milli \div 10
        r == milli % 10
    IN  IF r > 5 \/ (r = 5 /\ q % 2 = 1) THEN q + 1 ELSE q

\* A variant that keeps the sizes to one decimal.
memory_sizes_one_decimal(vm) ==
    [total_gb |-> 10 * Round2(Round2(vm.total)),
     used_gb |-> 10 * Round2(Round2(vm.used)),
     free_gb |-> 10 * Round2(Round2(vm.free))]

\* memory_analyzer.py 27-32: the counters of psutil.virtual_memory(), taken
\* in thousandths of a GB, each rounded to hundredths on its own.
memory_sizes(vm) ==
    [total_gb |-> Round2(vm.total),
     used_gb |-> Round2(vm.used),
     free_gb |-> Round2(vm.free)]

\* psutil.virtual_memory(): the counters the sizes are computed from.
VirtualMemory(total, used, free) == [total |-> total, used |-> used, free |-> free]

\* memory_analyzer.py 40-46: the module probe of the platform
memory_probe(env) ==
    IF env.system = "Linux" THEN collect_linux_dmi(DefaultModules, env.tool)
    ELSE IF env.system = "Windows" THEN collect_windows_wmi(DefaultModules, env.tool)
    ELSE IF env.system = "Darwin" THEN collect_macos_system_profiler(DefaultModules, env.tool)
    ELSE ProbeDone(DefaultModules)

\* memory_analyzer.py 26-48: virtual_memory and swap_memory are called
\* outside any try; the module probe catches what it raises.
MemoryAnalyzer_collect(env) ==
    IF env.os_raises THEN Raises
    ELSE LET modules == memory_probe(env).data
             sizes == memory_sizes(env.vm)
         IN  Returns([total_gb |-> sizes.total_gb,
                      used_gb |-> sizes.used_gb,
                      free_gb |-> sizes.free_gb,
                      usage_percent |-> env.usage_percent,
                      memory_type |-> modules.memory_type,
                      speed_mhz |-> modules.speed_mhz,
                      slots_used |-> modules.slots_used,
                      slots_total |-> modules.slots_total,
                      channel_mode |-> modules.channel_mode])

\* The hosts of the collection run: Linux, dmidecode failing or reporting
\* one DDR4 module.
MemoryEnvs ==
    [os_raises : BOOLEAN, vm : {VirtualMemory(15625, 7812, 7813)},
     usage_percent : {50, 91}, system : {"Linux"},
     tool : {Raises, Returns(<<Line("Type", None, "DDR4")>>)}]

\* One run of 'smartctl -H -A <device>' (storage_analyzer.py 135-138):
\* check_output raises on a timeout and on a non-zero exit, else returns the
\* output, which may contain PASSED, FAILED and a temperature attribute.
SmartctlRun(kind, passed, failed, temperature) ==
    [kind |-> kind, passed |-> passed, failed |-> failed, temperature |-> temperature]

\* A variant in which a failed run is reported like a missing smartctl.
get_smart_data_silent(installed, r) ==
    IF ~installed \/ r.kind \in {"timeout", "nonzero_exit"}
    THEN [smart_status |-> "N/A (smartctl not installed)", smart_temperature |-> None]
    ELSE [smart_status |-> IF r.passed THEN "PASSED"
                           ELSE IF r.failed THEN "FAILED" ELSE "Unknown",
          smart_temperature |-> r.temperature]

\* storage_analyzer.py 130-156: installed is shutil.which("smartctl"); the
\* run is consulted only when it is.
get_smart_data(installed, r) ==
    IF ~installed
    THEN [smart_status |-> "N/A (smartctl not installed)", smart_temperature |-> None]
    ELSE IF r.kind \in {"timeout", "nonzero_exit"}
    THEN [smart_status |-> "N/A", smart_temperature |-> None]
    ELSE [smart_status |-> IF r.passed THEN "PASSED"
                           ELSE IF r.failed THEN "FAILED" ELSE "Unknown",
          smart_temperature |-> r.temperature]

SmartctlRuns ==
    {SmartctlRun("timeout", FALSE, FALSE, None),
     SmartctlRun("nonzero_exit", FALSE, FALSE, None),
     SmartctlRun("output", TRUE, FALSE, None),
     SmartctlRun("output", FALSE, TRUE, Some(55)),
     SmartctlRun("output", TRUE, TRUE, None),
     SmartctlRun("output", FALSE, FALSE, None)}

\* smartctl on a host: whether it is installed, and what its run on the
\* i-th disk of the collection would be.
Smartctl(installed, runs) == [installed |-> installed, runs |-> runs]

\* The same outcome on every disk.
SameRun(r) == [i \in 1..MaxMounts |-> r]

\* Device paths are sequences of characters.
DevPrefix == <<"/", "d", "e", "v", "/">>
Dev(rest) == DevPrefix \o rest

Lowercase ==
    {"a", "b", "c", "d", "e", "f", "g", "h", "i", "j", "k", "l", "m",
     "n", "o", "p", "q", "r", "s", "t", "u", "v", "w", "x", "y", "z"}

\* The end of the run of lowercase letters that starts at position i.
RECURSIVE LetterRunEnd(_, _)
LetterRunEnd(device, i) ==
    IF i <= Len(device) /\ device[i] \in Lowercase
    THEN LetterRunEnd(device, i + 1)
    ELSE i - 1

\* The position of the last "s" in device, 0 if there is none.
LastS(device) ==
    IF \E i \in 1..Len(device) : device[i] = "s"
    THEN CHOOSE i \in 1..Len(device) :
            device[i] = "s" /\ \A j \in (i + 1)..Len(device) : device[j] # "s"
    ELSE 0

\* Mutant of get_base_device: on Linux the pattern is (/dev/[a-z0-9]+), the
\* whole device name.
get_base_device_whole(system, device) ==
    IF system = "Linux" THEN device
    ELSE IF system = "Windows" THEN SubSeq(device, 1, Min(2, Len(device)))
    ELSE IF system = "Darwin"
    THEN (IF LastS(device) > 0 THEN SubSeq(device, 1, LastS(device) - 1) ELSE device)
    ELSE device

\* storage_analyzer.py 83-93: Windows device[:2]; Linux the match of
\* (/dev/[a-z]+) at the start, the device itself if there is none; Darwin
\* the part before the last "s".
get_base_device(system, device) ==
    IF system = "Windows" THEN SubSeq(device, 1, Min(2, Len(device)))
    ELSE IF system = "Linux"
    THEN (IF /\ Len(device) >= 6
             /\ SubSeq(device, 1, 5) = DevPrefix
             /\ device[6] \in Lowercase
          THEN SubSeq(device, 1, LetterRunEnd(device, 6))
          ELSE device)
    ELSE IF system = "Darwin"
    THEN (IF LastS(device) > 0 THEN SubSeq(device, 1, LastS(device) - 1) ELSE device)
    ELSE device

RECURSIVE SumTotals(_, _)
SumTotals(parts, i) ==
    IF i > Len(parts) THEN 0 ELSE parts[i].total_gb + SumTotals(parts, i + 1)

\* The index of the disk named name in disks, 0 if there is none.
DiskIndex(disks, name) ==
    IF \E i \in 1..Len(disks) : disks[i].name = name
    THEN CHOOSE i \in 1..Len(disks) : disks[i].name = name
    ELSE 0

\* Mutant of GroupMounts: every partition gets a DiskData of its own.
RECURSIVE GroupMountsNoLookup(_, _, _, _)
GroupMountsNoLookup(system, mounts, k, disks) ==
    IF k > Len(mounts) THEN disks
    ELSE IF ~mounts[k].accessible THEN GroupMountsNoLookup(system, mounts, k + 1, disks)
    ELSE
        LET part == [device |-> mounts[k].device, mountpoint |-> <<k>>,
                     total_gb |-> Round2(mounts[k].total),
                     usage_percent |-> mounts[k].usage_percent]
        IN  GroupMountsNoLookup(system, mounts, k + 1,
                Append(disks, [name |-> get_base_device(system, mounts[k].device),
                               partitions |-> <<part>>]))

\* storage_analyzer.py 42-62: a mount whose usage query raises is skipped
\* before its base device is looked up; the others are appended to the disk
\* of their base device, created at its first partition.  Mount k of
\* psutil.disk_partitions is mounted at <<k>>.
RECURSIVE GroupMounts(_, _, _, _)
GroupMounts(system, mounts, k, disks) ==
    IF k > Len(mounts) THEN disks
    ELSE IF ~mounts[k].accessible THEN GroupMounts(system, mounts, k + 1, disks)
    ELSE
        LET part == [device |-> mounts[k].device, mountpoint |-> <<k>>,
                     total_gb |-> Round2(mounts[k].total),
                     usage_percent |-> mounts[k].usage_percent]
            name == get_base_device(system, mounts[k].device)
            at == DiskIndex(disks, name)
        IN  GroupMounts(system, mounts, k + 1,
                IF at = 0
                THEN Append(disks, [name |-> name, partitions |-> <<part>>])
                ELSE [disks EXCEPT ![at].partitions = Append(@, part)])

\* storage_analyzer.py 35-81: disk_io_counters and disk_partitions are called
\* outside any try; disk_usage is guarded for PermissionError and OSError.
\* Sizes are in hundredths of a GB.
StorageAnalyzer_collect(env) ==
    IF env.os_raises THEN Raises
    ELSE LET grouped == GroupMounts(env.system, env.mounts, 1, <<>>)
         IN  Returns([i \in 1..Len(grouped) |->
                LET smart == get_smart_data(env.smartctl.installed, env.smartctl.runs[i])
                IN  [name |-> grouped[i].name,
                     size_gb |-> Round2(10 * SumTotals(grouped[i].partitions, 1)),
                     smart_status |-> smart.smart_status,
                     smart_temperature |-> smart.smart_temperature,
                     partitions |-> grouped[i].partitions]])

\* What psutil.disk_partitions and disk_usage give for one mount: total in
\* thousandths of a GB; a mount whose usage query raises has no figures.
MountsOf(devices, totals, usages) ==
    [device : devices, accessible : {TRUE}, total : totals, usage_percent : usages]
    \cup [device : devices, accessible : {FALSE}, total : {0}, usage_percent : {0}]

LinuxDevices ==
    {Dev(<<"s", "d", "a", "1">>), Dev(<<"s", "d", "a", "2">>), Dev(<<"s", "d", "b", "1">>),
     Dev(<<"n", "v", "m", "e", "0", "n", "1", "p", "1">>),
     Dev(<<"n", "v", "m", "e", "1", "n", "1", "p", "1">>)}

DarwinDevices ==
    {Dev(<<"d", "i", "s", "k", "1", "s", "1">>), Dev(<<"d", "i", "s", "k", "1", "s", "2">>),
     Dev(<<"d", "i", "s", "k", "2", "s", "1">>)}

WindowsDevices == {<<"C", ":", "\\">>, <<"D", ":", "\\">>}

\* The hosts of the collection run: a Linux host with two SATA disks.
StorageEnvs ==
    [os_raises : BOOLEAN,
     system : {"Linux"},
     mounts : SeqsUpTo(MountsOf({Dev(<<"s", "d", "a", "1">>), Dev(<<"s", "d", "b", "1">>)},
                                {119994}, {50, 96}), MaxMounts),
     smartctl : {Smartctl(FALSE, SameRun(SmartctlRun("output", TRUE, FALSE, None))),
                 Smartctl(TRUE, SameRun(SmartctlRun("timeout", FALSE, FALSE, None))),
                 Smartctl(TRUE, SameRun(SmartctlRun("output", TRUE, FALSE, None))),
                 Smartctl(TRUE, SameRun(SmartctlRun("output", FALSE, TRUE, Some(55)))),
                 Smartctl(TRUE, SameRun(SmartctlRun("output", FALSE, FALSE, None)))}]

\* battery_analyzer.py 9-18: BatteryData().  health_percent has one decimal:
\* health_tenths is the value in tenths of a percent, health_percent its whole
\* part, which is all a comparison with a whole threshold reads.
DefaultBattery ==
    [present |-> FALSE, health_percent |-> 100, health_tenths |-> 1000,
     design_capacity_mwh |-> None, full_charge_capacity_mwh |-> None,
     charge_cycles |-> None]

WithHealth(bd, tenths) ==
    [bd EXCEPT !.health_percent = tenths \div 10, !.health_tenths = tenths]

\* round(n / d, 0) for d > 0, ties to even
RoundDiv(n, d) ==
    LET q == n \div d
        r == n % d
    IN  IF 2 * r > d \/ (2 * r = d /\ q % 2 = 1) THEN q + 1 ELSE q

\* battery_analyzer.py 46-64: a file that is missing or holds no integer
\* raises, and "except Exception: pass" keeps what was written before.
\* The files hold micro-watt-hours.
linux_battery_details(bd, sysfs) ==
    IF ~sysfs.paths THEN bd
    ELSE IF sysfs.energy_full_design = None THEN bd
    ELSE
        LET design == sysfs.energy_full_design[1] \div 1000
            d1 == [bd EXCEPT !.design_capacity_mwh = Some(design)]
        IN  IF sysfs.energy_full = None THEN d1
            ELSE
                LET full == sysfs.energy_full[1] \div 1000
                    d2 == [d1 EXCEPT !.full_charge_capacity_mwh = Some(full)]
                    d3 == IF design # 0
                          THEN WithHealth(d2, RoundDiv(1000 * full, design))
                          ELSE d2
                IN  IF sysfs.cycle_count = None THEN d3
                    ELSE [d3 EXCEPT !.charge_cycles = sysfs.cycle_count]

\* battery_analyzer.py 71-76: the loop over the lines of system_profiler,
\* from line i on; int() and float() raise on a value that is no number.
RECURSIVE PowerLines(_, _, _)
PowerLines(lines, i, bd) ==
    IF i > Len(lines) THEN bd
    ELSE
        LET line == lines[i]
        IN  IF line.key = "Cycle Count"
            THEN (IF line.number = None THEN bd
                  ELSE PowerLines(lines, i + 1, [bd EXCEPT !.charge_cycles = line.number]))
            ELSE IF line.key = "Maximum Capacity"
            THEN (IF line.number = None THEN bd
                  ELSE PowerLines(lines, i + 1, WithHealth(bd, 10 * line.number[1])))
            ELSE PowerLines(lines, i + 1, bd)

\* battery_analyzer.py 66-78
macos_battery_details(bd, profiler) ==
    IF profiler.raises THEN bd ELSE PowerLines(profiler.out, 1, bd)

\* battery_analyzer.py 84-86: the loop over Win32_Battery, from battery i on
RECURSIVE WmiBatteries(_, _, _)
WmiBatteries(batteries, i, bd) ==
    IF i > Len(batteries) THEN bd
    ELSE
        LET b == batteries[i]
            design == IF Truthy(b.DesignCapacity) THEN b.DesignCapacity[1] ELSE 0
            charge == IF Truthy(b.EstimatedChargeRemaining)
                      THEN b.EstimatedChargeRemaining[1] ELSE 0
        IN  WmiBatteries(batteries, i + 1,
                         WithHealth([bd EXCEPT !.design_capacity_mwh = Some(design)],
                                    10 * charge))

\* battery_analyzer.py 80-88
windows_battery_details(bd, wmi) ==
    IF wmi.raises THEN bd ELSE WmiBatteries(wmi.out, 1, bd)

\* battery_analyzer.py 22-44: sensors_battery is called outside any try; the
\* platform details catch what they raise.
BatteryAnalyzer_collect(env) ==
    IF env.os_raises THEN Raises
    ELSE IF ~env.present THEN Returns(DefaultBattery)
    ELSE
        LET bd == [DefaultBattery EXCEPT !.present = TRUE]
        IN  Returns(IF env.system = "Linux" THEN linux_battery_details(bd, env.details)
                    ELSE IF env.system = "Darwin" THEN macos_battery_details(bd, env.details)
                    ELSE IF env.system = "Windows" THEN windows_battery_details(bd, env.details)
                    ELSE bd)

\* /sys/class/power_supply/BAT*: whether there is one, and its files
Sysfs(paths, energy_full_design, energy_full, cycle_count) ==
    [paths |-> paths, energy_full_design |-> energy_full_design,
     energy_full |-> energy_full, cycle_count |-> cycle_count]

\* The hosts of the collection run: Linux, without a battery, with one that
\* has no capacity files, or with one at half its design capacity.
BatteryEnvs ==
    [os_raises : BOOLEAN, present : BOOLEAN, system : {"Linux"},
     details : {Sysfs(FALSE, None, None, None),
                Sysfs(TRUE, Some(50000000), Some(25000000), Some(300))}]

\* An entry of an interface's address list (psutil snicaddr): AF_LINK stands
\* for the link-layer family under either of its spellings (line 41).
Addr(family, address) == [family |-> family, address |-> address]

\* network_analyzer.py 40-44: the loop over the addresses of one interface,
\* from address i on; each assignment replaces what an earlier one wrote.
RECURSIVE InterfaceAddrs(_, _, _)
InterfaceAddrs(addrs, i, iface) ==
    IF i > Len(addrs) THEN iface
    ELSE IF addrs[i].family = "AF_LINK"
    THEN InterfaceAddrs(addrs, i + 1, [iface EXCEPT !.mac_address = addrs[i].address])
    ELSE IF addrs[i].family = "AF_INET"
    THEN InterfaceAddrs(addrs, i + 1, [iface EXCEPT !.ipv4_address = addrs[i].address])
    ELSE InterfaceAddrs(addrs, i + 1, iface)

\* network_analyzer.py 8-17, 37
InterfaceData(name) == [name |-> name, mac_address |-> "N/A", ipv4_address |-> "N/A"]

\* network_analyzer.py 26-66: net_if_addrs, net_if_stats and net_io_counters
\* are called outside any try; one InterfaceData per interface of
\* net_if_addrs, in its order.
NetworkAnalyzer_collect(env) ==
    IF env.os_raises THEN Raises
    ELSE Returns([interfaces |->
            [k \in 1..Len(env.interfaces) |->
                InterfaceAddrs(env.interfaces[k].addrs, 1,
                               InterfaceData(env.interfaces[k].name))]])

Interface(name, addrs) == [name |-> name, addrs |-> addrs]

\* The hosts of the collection run: no interface, or eth0 with one address.
NetworkEnvs ==
    [os_raises : BOOLEAN,
     interfaces : {<<>>, <<Interface("eth0", <<Addr("AF_INET", "10.0.0.1")>>)>>}]

\* The GPU environments of a host with at most one device.
MainGpuEnvs ==
    [gputil : {Raises, Returns(<<"GPU A">>)},
     smi : {Raises, Returns(<<"na_mem">>), Returns(<<"full">>)},
     system : {"Linux", "Other"},
     native : {Raises, Returns(<<"GPU B">>)}]

----------------------------------------------------------------------------
(* main (main.py 155-233), from the first collector on: data holds the      *)
(* system overview.  An exception raised by a collector is caught nowhere   *)
(* and ends the run.                                                        *)

Collectors == {"cpu", "memory", "storage", "gpu", "battery", "network"}

EmptyData ==
    [cpu |-> None, memory |-> None, storage |-> <<>>, gpu |-> <<>>,
     battery |-> None, network |-> None]

InitMain ==
    /\ pc = "cpu"
    /\ run = {"system"}
    /\ data = EmptyData
    /\ config = thresholds
    /\ result = <<>>
    /\ calls = 0
    /\ IdleGpu
    /\ IdleCollector

\* data[key] = collector.collect(), then on to the next step
Assign(key, outcome, value, next) ==
    /\ IF outcome.raises
       THEN pc' = "crashed" /\ UNCHANGED <<data, run>>
       ELSE /\ data' = [data EXCEPT ![key] = value]
            /\ run' = run \cup {key}
            /\ pc' = next
    /\ UNCHANGED <<config, result, calls>>
    /\ UNCHANGED gpuVars
    /\ UNCHANGED collectorVars

\* main.py 171
CollectCpu ==
    /\ pc = "cpu"
    /\ \E env \in CpuEnvs :
        LET o == CPUAnalyzer_collect(env) IN Assign("cpu", o, Some(o.out), "memory")

\* main.py 177
CollectMemory ==
    /\ pc = "memory"
    /\ \E env \in MemoryEnvs :
        LET o == MemoryAnalyzer_collect(env) IN Assign("memory", o, Some(o.out), "storage")

\* main.py 183
CollectStorage ==
    /\ pc = "storage"
    /\ \E env \in StorageEnvs :
        LET o == StorageAnalyzer_collect(env) IN Assign("storage", o, o.out, "gpu")

\* main.py 189
CollectGpu ==
    /\ pc = "gpu"
    /\ \E env \in MainGpuEnvs :
        Assign("gpu", Returns(<<>>), GPUAnalyzer_collect(env), "battery")

\* main.py 195
CollectBattery ==
    /\ pc = "battery"
    /\ \E env \in BatteryEnvs :
        LET o == BatteryAnalyzer_collect(env) IN Assign("battery", o, Some(o.out), "network")

\* main.py 201
CollectNetwork ==
    /\ pc = "network"
    /\ \E env \in NetworkEnvs :
        LET o == NetworkAnalyzer_collect(env) IN Assign("network", o, Some(o.out), "benchmarks")

\* main.py 206-228: skipped with --no-benchmark
Benchmarks ==
    /\ pc = "benchmarks"
    /\ \E no_benchmark \in BOOLEAN :
        run' = IF no_benchmark THEN run ELSE run \cup {"benchmarks"}
    /\ pc' = "score"
    /\ UNCHANGED <<data, config, result, calls>>
    /\ UNCHANGED gpuVars
    /\ UNCHANGED collectorVars

\* main.py 231-233
HealthScore ==
    /\ pc = "score"
    /\ result' = <<compute_health_score(data, config)>>
    /\ calls' = calls + 1
    /\ run' = run \cup {"health_score", "recommendations"}
    /\ pc' = "report"
    /\ UNCHANGED <<data, config>>
    /\ UNCHANGED gpuVars
    /\ UNCHANGED collectorVars

NextMain ==
    \/ CollectCpu
    \/ CollectMemory
    \/ CollectStorage
    \/ CollectGpu
    \/ CollectBattery
    \/ CollectNetwork
    \/ Benchmarks
    \/ HealthScore

SpecMain == InitMain /\ [][NextMain]_vars

----------------------------------------------------------------------------
\* C10: whatever data sources are absent, denied, timing out or failing,
\* each of the six collectors returns a record instead of raising (the run
\* never ends in an uncaught exception), and main reaches
\* compute_health_score only after all six have returned, with all six
\* records in data.
C10_AlwaysUsableSnapshot ==
    /\ pc # "crashed"
    /\ (pc \in {"score", "report"} => Collectors \subseteq run)

\* The part of C10 the code keeps: the scorer is reached only with all six
\* records in data, and a run in which no unguarded call raises reaches it.
C10_ScoredOnlyAfterAllSix ==
    pc \in {"score", "report"} => Collectors \subseteq run

C10_ReachesReport == pc = "report" /\ Collectors \subseteq run /\ Returned

----------------------------------------------------------------------------
(* The external executables a collection run invokes (subprocess           *)
(* check_output), in the order main reaches them.  check_output waits for  *)
(* the child to exit; with timeout=10 it raises TimeoutExpired after ten   *)
(* seconds, which every caller catches with "except Exception".  Without   *)
(* a timeout argument it waits for as long as the child runs.              *)

SUBPROCESS_TIMEOUT == 10

ExternalTool(name, timeout) == [name |-> name, timeout |-> timeout]

ToolHosts ==
    [system : {"Linux", "Darwin", "Windows"},
     smartctl_installed : BOOLEAN,
     disks : 0..MaxDisks,
     gputil_finds : BOOLEAN,
     battery_present : BOOLEAN]

\* The executable invoked at a probe point on host h, None where the point
\* runs no executable (a file read, WMI, or nothing at all).
ToolAt(h, at) ==
    CASE at = "memory" ->
            IF h.system = "Linux" THEN Some(ExternalTool("sudo dmidecode", None))
            ELSE IF h.system = "Darwin" THEN Some(ExternalTool("system_profiler", None))
            ELSE None
      [] at = "disk_type" ->
            IF h.system = "Darwin" THEN Some(ExternalTool("diskutil", None)) ELSE None
      [] at = "smart" ->
            IF h.smartctl_installed
            THEN Some(ExternalTool("smartctl", Some(SUBPROCESS_TIMEOUT)))
            ELSE None
      [] at = "nvidia_smi" ->
            Some(ExternalTool("nvidia-smi", Some(SUBPROCESS_TIMEOUT)))
      [] at = "platform_gpu" ->
            IF h.system = "Linux" THEN Some(ExternalTool("lspci", None))
            ELSE IF h.system = "Darwin" THEN Some(ExternalTool("system_profiler", None))
            ELSE None
      [] at = "battery" ->
            IF h.battery_present /\ h.system = "Darwin"
            THEN Some(ExternalTool("system_profiler", None))
            ELSE None
      [] OTHER -> None

At(at, disk) == [at |-> at, disk |-> disk, tool |-> "idle"]

\* GPUAnalyzer.collect after the storage loop: GPUtil first
GpuStart(h) == IF h.gputil_finds THEN At("battery", 0) ELSE At("nvidia_smi", 0)

\* The probe point after p, the executable (if any) having yielded outcome.
After(h, p, outcome) ==
    CASE p.at = "memory" -> IF h.disks > 0 THEN At("disk_type", 1) ELSE GpuStart(h)
      [] p.at = "disk_type" -> At("smart", p.disk)
      [] p.at = "smart" -> IF p.disk < h.disks THEN At("disk_type", p.disk + 1) ELSE GpuStart(h)
      [] p.at = "nvidia_smi" -> IF outcome = "output" THEN At("battery", 0) ELSE At("platform_gpu", 0)
      [] p.at = "platform_gpu" -> At("battery", 0)
      [] p.at = "battery" -> At("done", 0)
      [] OTHER -> p

InitTools ==
    /\ host \in ToolHosts
    /\ probe = At("memory", 0)
    /\ record = <<>>
    /\ IdleScore
    /\ IdleGpu
    /\ IdleMain

ToolStep(next) ==
    /\ probe' = next
    /\ UNCHANGED <<host, record>>
    /\ UNCHANGED scoreVars
    /\ UNCHANGED gpuVars
    /\ UNCHANGED mainVars

\* A probe point that runs no executable
NoTool ==
    /\ probe.tool = "idle" /\ probe.at # "done"
    /\ ToolAt(host, probe.at) = None
    /\ ToolStep(After(host, probe, "absent"))

\* subprocess.check_output(...) is entered
InvokeTool ==
    /\ probe.tool = "idle" /\ probe.at # "done"
    /\ ToolAt(host, probe.at) # None
    /\ ToolStep([probe EXCEPT !.tool = "running"])

\* The child exits: with output, or with an error (not installed, non-zero
\* exit) that the caller catches and treats as absent.
ToolExits ==
    /\ probe.tool = "running"
    /\ \E outcome \in {"output", "absent"} :
        ToolStep(After(host, probe, outcome))

\* The child does not exit.
ToolHangs ==
    /\ probe.tool = "running"
    /\ ToolStep([probe EXCEPT !.tool = "hung"])

\* TimeoutExpired is raised in a call that passed timeout=, caught by the
\* caller's "except Exception" and not retried.
TimeoutExpires ==
    /\ probe.tool = "hung"
    /\ ToolAt(host, probe.at)[1].timeout # None
    /\ ToolStep(After(host, probe, "absent"))

NextTools ==
    \/ NoTool
    \/ InvokeTool
    \/ ToolExits
    \/ ToolHangs
    \/ TimeoutExpires

SpecTools == InitTools /\ [][NextTools]_vars

\* The program runs on: a statement that can execute does, a child that does
\* not hang exits, and a timeout that is set expires.
FairTools ==
    /\ WF_vars(NoTool)
    /\ WF_vars(InvokeTool)
    /\ WF_vars(ToolExits)
    /\ WF_vars(TimeoutExpires)

SpecToolsFair == InitTools /\ [][NextTools]_vars /\ FairTools

\* C11: no external tool can block a collection run forever: whichever
\* executable hangs, its timeout expires, it is treated as absent without a
\* retry, and the run eventually finishes.
C11_RunEventuallyFinishes == <>(probe.at = "done")

\* The part of C11 the code keeps: smartctl and nvidia-smi are invoked with a
\* timeout, and a hang of one of them is left after the timeout.
C11_TimedToolsAreLeft ==
    [][(probe.tool = "hung" /\ ToolAt(host, probe.at)[1].name \in {"smartctl", "nvidia-smi"})
        => ENABLED TimeoutExpires]_vars

C11_HungWithoutTimeout ==
    /\ probe.tool = "hung"
    /\ ToolAt(host, probe.at)[1].timeout = None

----------------------------------------------------------------------------
(* compute_health_score on a data dict in which a domain may be missing or *)
(* null.  data.get("cpu"), data.get("memory") and data.get("battery") give *)
(* None for a missing key and for a null value alike, and "if cpu:" skips   *)
(* the checks; data.get("storage", []) gives [] for a missing key and None  *)
(* for a null value, and "for disk in None" raises TypeError.               *)

RequiredDomains == {"cpu", "memory", "storage", "battery"}

\* storage_entry tells the three cases of the "storage" key apart; storage
\* is the list when there is one.
ContractDicts ==
    [cpu : {None} \cup {Some(c) : c \in CpuRecords},
     memory : {None} \cup {Some(m) : m \in MemoryRecords},
     battery : {None} \cup {Some(b) : b \in BatteryRecords},
     storage : {<<>>},
     storage_entry : {"missing", "null"}]
    \cup
    [cpu : {None} \cup {Some(c) : c \in CpuRecords},
     memory : {None} \cup {Some(m) : m \in MemoryRecords},
     battery : {None} \cup {Some(b) : b \in BatteryRecords},
     storage : {l \in StorageLists : Len(l) <= 1},
     storage_entry : {"list"}]

\* main.py 54-141 on such a dict: the value returned, or the exception
score_dict(d, cfg) ==
    IF d.storage_entry = "null" THEN Raises
    ELSE Returns(compute_health_score(d, cfg))

InitContract ==
    /\ data \in ContractDicts
    /\ config = thresholds
    /\ result = <<>>
    /\ calls = 0
    /\ pc = "score"
    /\ run = Collectors \cup {"system"}
    /\ IdleGpu
    /\ IdleCollector

\* health_score, recommendations = compute_health_score(data)
ScoreDict ==
    /\ pc = "score"
    /\ LET o == score_dict(data, config)
       IN  IF o.raises
           THEN pc' = "crashed" /\ UNCHANGED result
           ELSE pc' = "report" /\ result' = <<o.out>>
    /\ calls' = calls + 1
    /\ UNCHANGED <<data, config, run>>
    /\ UNCHANGED gpuVars
    /\ UNCHANGED collectorVars

NextContract == ScoreDict

SpecContract == InitContract /\ [][NextContract]_vars

\* The required domains that are missing or null in the dict d.
NullDomains(d) ==
    {k \in {"cpu", "memory", "battery"} : d[k] = None}
        \cup (IF d.storage_entry = "list" THEN {} ELSE {"storage"})

\* C12: given data in which a required domain (cpu, memory, storage or
\* battery) is missing or null, compute_health_score fails: it never
\* returns a score for such data.
C12_NullDomainIsFatal ==
    (pc = "report" /\ result # <<>>) => NullDomains(data) = {}

\* The part of C12 the code keeps: a null storage value is fatal.
C12_NullStorageIsFatal ==
    data.storage_entry = "null" => pc # "report"

C12_NullStorageCrashed == pc = "crashed" /\ data.storage_entry = "null"

----------------------------------------------------------------------------
(* CPUAnalyzer._detect_throttling on the frequencies (MHz) and temperature *)
(* that collect has written to the record; a frequency psutil did not      *)
(* report is the default 0, an unreadable temperature is None.             *)

ThrottleInputs ==
    [frequency_current : {0, 1500, 2249, 2250, 3000},
     frequency_max : {0, 3000, 4000},
     temperature : {None, Some(0), Some(85), Some(86), Some(95)}]

InitThrottle ==
    /\ host \in ThrottleInputs
    /\ probe = "detect_throttling"
    /\ record = <<>>
    /\ IdleScore
    /\ IdleGpu
    /\ IdleMain

\* data.is_throttling = self._detect_throttling(data)
DetectThrottling ==
    /\ probe = "detect_throttling"
    /\ record' = <<detect_throttling(host.frequency_current, host.frequency_max,
                                     host.temperature)>>
    /\ probe' = "returned"
    /\ UNCHANGED host
    /\ UNCHANGED scoreVars
    /\ UNCHANGED gpuVars
    /\ UNCHANGED mainVars

NextThrottle == DetectThrottling

SpecThrottle == InitThrottle /\ [][NextThrottle]_vars

\* current / max < 0.75, for known frequencies, in thousandths
RatioBelowThreeQuarters(h) ==
    /\ h.frequency_current > 0 /\ h.frequency_max > 0
    /\ (1000 * h.frequency_current) \div h.frequency_max < 750

TemperatureAbove85(h) == h.temperature # None /\ h.temperature[1] > 85

ThrottleInputMissing(h) ==
    \/ h.frequency_current = 0
    \/ h.frequency_max = 0
    \/ h.temperature = None
    \/ h.temperature = Some(0)

\* C13: _detect_throttling returns true iff current / max < 0.75 and
\* temperature > 85; false whenever the current frequency, the max frequency
\* or the temperature is missing (0 or None); false when only one of the two
\* conditions holds.
C13_ThrottlingIffBoth ==
    probe = "returned" =>
        /\ record[1] <=> (RatioBelowThreeQuarters(host) /\ TemperatureAbove85(host))
        /\ ThrottleInputMissing(host) => ~record[1]
        /\ (RatioBelowThreeQuarters(host) # TemperatureAbove85(host)) => ~record[1]

C13_Witness ==
    /\ probe = "returned" /\ record[1]
    /\ host.frequency_current = 2249 /\ host.frequency_max = 3000
    /\ host.temperature = Some(86)

C13_WitnessOnlyOne ==
    /\ probe = "returned" /\ ~record[1]
    /\ host.frequency_current = 2250 /\ host.frequency_max = 3000
    /\ host.temperature = Some(95)

----------------------------------------------------------------------------
(* StorageAnalyzer.collect on its own, on hosts whose psutil queries       *)
(* succeed: Linux, macOS and Windows device names, mounts whose usage      *)
(* query may raise.                                                        *)

PartitionTotals == {119994, 250015}

StorageSmartctlRuns ==
    {Smartctl(installed, SameRun(SmartctlRun("output", TRUE, FALSE, None))) :
        installed \in BOOLEAN}

StorageHosts ==
    [os_raises : {FALSE}, system : {"Linux"},
     mounts : SeqsUpTo(MountsOf(LinuxDevices, PartitionTotals, {50}), MaxMounts),
     smartctl : StorageSmartctlRuns]
    \cup
    [os_raises : {FALSE}, system : {"Darwin"},
     mounts : SeqsUpTo(MountsOf(DarwinDevices, PartitionTotals, {50}), MaxMounts),
     smartctl : StorageSmartctlRuns]
    \cup
    [os_raises : {FALSE}, system : {"Windows"},
     mounts : SeqsUpTo(MountsOf(WindowsDevices, PartitionTotals, {50}), MaxMounts),
     smartctl : StorageSmartctlRuns]

InitStorage ==
    /\ host \in StorageHosts
    /\ probe = "collect"
    /\ record = <<>>
    /\ IdleScore
    /\ IdleGpu
    /\ IdleMain

\* StorageAnalyzer().collect()
CollectDisks ==
    /\ probe = "collect"
    /\ LET o == StorageAnalyzer_collect(host)
       IN  IF o.raises
           THEN probe' = "raised" /\ UNCHANGED record
           ELSE probe' = "returned" /\ record' = <<o.out>>
    /\ UNCHANGED host
    /\ UNCHANGED scoreVars
    /\ UNCHANGED gpuVars
    /\ UNCHANGED mainVars

NextStorage == CollectDisks

SpecStorage == InitStorage /\ [][NextStorage]_vars

\* The places <<i, j>> of the returned list that hold mount k.
PlacesOf(disks, k) ==
    {ij \in UNION {{<<i, j>> : j \in 1..Len(disks[i].partitions)} : i \in 1..Len(disks)} :
        disks[ij[1]].partitions[ij[2]].mountpoint = <<k>>}

AbsDiff(a, b) == IF a >= b THEN a - b ELSE b - a

\* C14: in every list returned by StorageAnalyzer.collect, every partition
\* whose usage query succeeded is in exactly one DiskData, once (and no other
\* partition is in the list), disk names are pairwise distinct, and each
\* disk's size_gb is the sum of its partitions' total_gb within 0.01.
C14_PartitionsInExactlyOneDisk ==
    probe = "returned" =>
        LET disks == record[1]
            mounts == host.mounts
        IN  /\ \A k \in 1..Len(mounts) :
                Cardinality(PlacesOf(disks, k)) = (IF mounts[k].accessible THEN 1 ELSE 0)
            /\ \A i \in 1..Len(disks) : \A j \in 1..Len(disks[i].partitions) :
                disks[i].partitions[j].mountpoint[1] \in 1..Len(mounts)
            /\ \A i, j \in 1..Len(disks) : i # j => disks[i].name # disks[j].name
            /\ \A i \in 1..Len(disks) :
                AbsDiff(disks[i].size_gb, SumTotals(disks[i].partitions, 1)) <= 1

C14_Witness ==
    /\ probe = "returned"
    /\ host.system = "Linux"
    /\ Len(host.mounts) = 2
    /\ Len(record[1]) = 1
    /\ Len(record[1][1].partitions) = 2

C14_WitnessTwoDisks ==
    /\ probe = "returned"
    /\ Len(record[1]) = 2
    /\ record[1][1].size_gb # record[1][2].size_gb

\* The base devices of the mounts psutil.disk_partitions lists on host h.
BaseDevices(h) ==
    {get_base_device(h.system, h.mounts[k].device) : k \in 1..Len(h.mounts)}

NoneAccessible(h, base) ==
    \A k \in 1..Len(h.mounts) :
        get_base_device(h.system, h.mounts[k].device) = base => ~h.mounts[k].accessible

\* C15: when the usage query fails for every partition of a base device,
\* collect skips those partitions without failing and still returns a
\* DiskData for that base device, with no partitions and size 0.
C15_InaccessibleDiskStillReported ==
    /\ probe # "raised"
    /\ probe = "returned" =>
        \A base \in BaseDevices(host) :
            NoneAccessible(host, base) =>
                \E i \in 1..Len(record[1]) :
                    /\ record[1][i].name = base
                    /\ record[1][i].partitions = <<>>
                    /\ record[1][i].size_gb = 0

\* The part of C15 the code keeps: an inaccessible partition is skipped and
\* collect returns.
C15_InaccessibleSkippedNotFatal ==
    /\ probe # "raised"
    /\ probe = "returned" =>
        \A k \in 1..Len(host.mounts) :
            ~host.mounts[k].accessible => PlacesOf(record[1], k) = {}

C15_InaccessibleSkipped ==
    /\ probe = "returned"
    /\ \E k \in 1..Len(host.mounts) : ~host.mounts[k].accessible
    /\ record[1] # <<>>

\* The device path with its trailing partition-number suffix stripped:
\* trailing digits go, and the "p" that separates them from a digit.
RECURSIVE StripDigits(_)
StripDigits(device) ==
    IF device # <<>> /\ device[Len(device)] \in {"0", "1", "2", "3", "4", "5", "6", "7", "8", "9"}
    THEN StripDigits(SubSeq(device, 1, Len(device) - 1))
    ELSE device

PhysicalDisk(device) ==
    LET d == StripDigits(device)
    IN  IF /\ Len(d) >= 2
           /\ d[Len(d)] = "p"
           /\ d[Len(d) - 1] \in {"0", "1", "2", "3", "4", "5", "6", "7", "8", "9"}
        THEN SubSeq(d, 1, Len(d) - 1)
        ELSE d

\* The index of the DiskData that holds mount k.
DiskOfMount(disks, k) ==
    CHOOSE i \in 1..Len(disks) :
        \E j \in 1..Len(disks[i].partitions) : disks[i].partitions[j].mountpoint = <<k>>

\* C16: on Linux, two partitions are grouped into the same DiskData exactly
\* when their device paths, stripped of the partition-number suffix, are the
\* same: partitions of one physical disk share a key, partitions of two
\* physical disks have different keys.
C16_GroupedByPhysicalDisk ==
    (probe = "returned" /\ host.system = "Linux") =>
        \A k1, k2 \in {k \in 1..Len(host.mounts) : host.mounts[k].accessible} :
            (DiskOfMount(record[1], k1) = DiskOfMount(record[1], k2))
                <=> (PhysicalDisk(host.mounts[k1].device) = PhysicalDisk(host.mounts[k2].device))

\* The part of C16 the code keeps: /dev/sdXN partitions are grouped by /dev/sdX.
C16_SataGroupedByDisk ==
    (probe = "returned" /\ host.system = "Linux") =>
        \A i \in 1..Len(record[1]) : \A j \in 1..Len(record[1][i].partitions) :
            LET device == record[1][i].partitions[j].device
            IN  device[6] = "s" => record[1][i].name = PhysicalDisk(device)

C16_SataGrouped ==
    /\ probe = "returned" /\ host.system = "Linux"
    /\ Len(record[1]) = 1
    /\ record[1][1].name = Dev(<<"s", "d", "a">>)
    /\ Len(record[1][1].partitions) = 2

----------------------------------------------------------------------------
(* MemoryAnalyzer.collect on its own, on hosts whose psutil queries         *)
(* succeed: what the module probe of each platform prints or returns.       *)

DmiOutputLines ==
    {Line("Number Of Devices", Some(4), ""), Line("Number Of Devices", None, "n/a"),
     Line("Size", Some(8192), "MB"), Line("Size", None, "No Module Installed"),
     Line("Speed", Some(3200), "MT/s"), Line("Type", None, "DDR4")}

ProfilerOutputLines ==
    {Line("Size", Some(8), "GB"), Line("Size", None, "Empty"),
     Line("Speed", Some(2400), "MHz"), Line("Speed", None, "n/a"),
     Line("Type", None, "DDR4")}

\* A Win32_PhysicalMemory instance
WmiModuleKinds ==
    {[Speed |-> Some(3200), SMBIOSMemoryType |-> Some(26), unreadable |-> FALSE],
     [Speed |-> None, SMBIOSMemoryType |-> Some(0), unreadable |-> FALSE],
     [Speed |-> None, SMBIOSMemoryType |-> None, unreadable |-> TRUE]}

\* Win32_PhysicalMemoryArray: the query raising, no array, or the
\* MemoryDevices of the first array
WmiArrays == {Raises, Returns(<<>>), Returns(<<None>>), Returns(<<Some(4)>>)}

MemoryHosts ==
    [os_raises : {FALSE}, vm : {VirtualMemory(15625, 7812, 7813)}, usage_percent : {50}, system : {"Linux"},
     tool : {Raises} \cup {Returns(l) : l \in SeqsUpTo(DmiOutputLines, MaxLines)}]
    \cup
    [os_raises : {FALSE}, vm : {VirtualMemory(15625, 7812, 7813)}, usage_percent : {50}, system : {"Darwin"},
     tool : {Raises} \cup {Returns(l) : l \in SeqsUpTo(ProfilerOutputLines, MaxLines)}]
    \cup
    [os_raises : {FALSE}, vm : {VirtualMemory(15625, 7812, 7813)}, usage_percent : {50}, system : {"Windows"},
     tool : {Raises} \cup
            {Returns([modules |-> ms, arrays |-> as]) :
                ms \in SeqsUpTo(WmiModuleKinds, MaxModules), as \in WmiArrays}]
    \cup
    [os_raises : {FALSE}, vm : {VirtualMemory(15625, 7812, 7813)}, usage_percent : {50}, system : {"Other"}, tool : {Raises}]

InitMemory ==
    /\ host \in MemoryHosts
    /\ probe = "collect"
    /\ record = <<>>
    /\ IdleScore
    /\ IdleGpu
    /\ IdleMain

\* MemoryAnalyzer().collect()
CollectMemoryRecord ==
    /\ probe = "collect"
    /\ LET o == MemoryAnalyzer_collect(host)
       IN  IF o.raises
           THEN probe' = "raised" /\ UNCHANGED record
           ELSE probe' = "returned" /\ record' = <<o.out>>
    /\ UNCHANGED host
    /\ UNCHANGED scoreVars
    /\ UNCHANGED gpuVars
    /\ UNCHANGED mainVars

NextMemory == CollectMemoryRecord

SpecMemory == InitMemory /\ [][NextMemory]_vars

\* The module metadata of a MemoryData
ModulesOf(r) ==
    [memory_type |-> r.memory_type, speed_mhz |-> r.speed_mhz, slots_used |-> r.slots_used,
     slots_total |-> r.slots_total, channel_mode |-> r.channel_mode]

\* C17: if the memory module probe fails at any point, part-way through
\* parsing included, collect still returns and the module metadata of the
\* record is entirely the defaults ('Unknown', None, 0, 0, 'Unknown').
C17_ProbeFailureLeavesDefaults ==
    /\ probe # "raised"
    /\ (probe = "returned" /\ memory_probe(host).failed) =>
            ModulesOf(record[1]) = DefaultModules

\* The part of C17 the code keeps: collect returns whatever the probe does,
\* and a probe whose tool cannot be run at all leaves the defaults.
C17_ToolFailureLeavesDefaults ==
    /\ probe # "raised"
    /\ (probe = "returned" /\ host.tool.raises) => ModulesOf(record[1]) = DefaultModules

C17_ToolFailed == probe = "returned" /\ host.system = "Linux" /\ host.tool.raises

ChannelModeOf(slots_used) ==
    IF slots_used = 0 THEN "Unknown"
    ELSE IF slots_used = 1 THEN "Single Channel"
    ELSE "Dual Channel"

\* C18: in every MemoryData returned by collect, on each platform path and
\* whether or not the probe failed, channel_mode is 'Unknown' when
\* slots_used = 0, 'Single Channel' when it is 1, 'Dual Channel' when >= 2.
C18_ChannelModeFromSlots ==
    probe = "returned" => record[1].channel_mode = ChannelModeOf(record[1].slots_used)

\* The part of C18 the code keeps: the mapping holds when the probe did not
\* fail, and on the Linux and macOS paths also when it did.
C18_ChannelModeUnlessWmiFailed ==
    (probe = "returned" /\ ~(host.system = "Windows" /\ memory_probe(host).failed)) =>
        record[1].channel_mode = ChannelModeOf(record[1].slots_used)

C18_DualChannel ==
    /\ probe = "returned" /\ host.system = "Windows"
    /\ record[1].slots_used = 2 /\ record[1].channel_mode = "Dual Channel"

----------------------------------------------------------------------------
(* BatteryAnalyzer.collect on its own, on hosts where psutil reports a      *)
(* battery: the capacity files of Linux, the power report of macOS and the *)
(* Win32_Battery instances of Windows.                                      *)

SysfsBatteries ==
    {Sysfs(p, d, f, c) :
        p \in BOOLEAN,
        d \in {None, Some(0), Some(50000000)},
        f \in {None, Some(25000000), Some(41234000)},
        c \in {None, Some(300)}}

PowerOutputLines ==
    {Line("Cycle Count", Some(300), ""), Line("Cycle Count", None, "n/a"),
     Line("Maximum Capacity", Some(87), "%"), Line("Charging", None, "No")}

Win32Batteries ==
    [DesignCapacity : {None, Some(50000)}, EstimatedChargeRemaining : {None, Some(80)}]

BatteryHosts ==
    [os_raises : {FALSE}, present : {TRUE}, system : {"Linux"}, details : SysfsBatteries]
    \cup
    [os_raises : {FALSE}, present : {TRUE}, system : {"Darwin"},
     details : {Raises} \cup {Returns(l) : l \in SeqsUpTo(PowerOutputLines, MaxLines)}]
    \cup
    [os_raises : {FALSE}, present : {TRUE}, system : {"Windows"},
     details : {Raises} \cup {Returns(l) : l \in SeqsUpTo(Win32Batteries, MaxModules)}]
    \cup
    [os_raises : {FALSE}, present : {FALSE}, system : {"Linux"},
     details : {Sysfs(FALSE, None, None, None)}]

InitBattery ==
    /\ host \in BatteryHosts
    /\ probe = "collect"
    /\ record = <<>>
    /\ IdleScore
    /\ IdleGpu
    /\ IdleMain

\* BatteryAnalyzer().collect()
CollectBatteryRecord ==
    /\ probe = "collect"
    /\ LET o == BatteryAnalyzer_collect(host)
       IN  IF o.raises
           THEN probe' = "raised" /\ UNCHANGED record
           ELSE probe' = "returned" /\ record' = <<o.out>>
    /\ UNCHANGED host
    /\ UNCHANGED scoreVars
    /\ UNCHANGED gpuVars
    /\ UNCHANGED mainVars

NextBattery == CollectBatteryRecord

SpecBattery == InitBattery /\ [][NextBattery]_vars

\* Neither capacity data nor a platform health field is available on host h:
\* no capacity file on Linux, no "Maximum Capacity" line on macOS, no
\* Win32_Battery instance with a capacity or a charge figure on Windows.
NoHealthSource(h) ==
    IF h.system = "Linux"
    THEN ~h.details.paths
            \/ (h.details.energy_full_design = None /\ h.details.energy_full = None)
    ELSE IF h.system = "Darwin"
    THEN h.details.raises
            \/ \A i \in 1..Len(h.details.out) : h.details.out[i].key # "Maximum Capacity"
    ELSE h.details.raises
            \/ \A i \in 1..Len(h.details.out) :
                /\ h.details.out[i].DesignCapacity = None
                /\ h.details.out[i].EstimatedChargeRemaining = None

\* Both capacities of the returned record are known (and the design
\* capacity is not zero).
BothCapacitiesKnown(r) ==
    /\ r.design_capacity_mwh # None /\ r.design_capacity_mwh[1] > 0
    /\ r.full_charge_capacity_mwh # None

\* health = 100 * full / design to the one decimal health_percent keeps
HealthIsCapacityRatio(r) ==
    LET design == r.design_capacity_mwh[1]
        full == r.full_charge_capacity_mwh[1]
    IN  2 * AbsDiff(r.health_tenths * design, 1000 * full) <= design

\* C19: with a battery present and neither capacity data nor a platform
\* health field available, collect returns health_percent = 100 on every
\* platform path; with both capacities known on the Linux path,
\* health_percent = 100 * full_charge_capacity / design_capacity.
C19_HealthDefaultsTo100 ==
    (probe = "returned" /\ record[1].present) =>
        /\ NoHealthSource(host) => record[1].health_tenths = 1000
        /\ (host.system = "Linux" /\ BothCapacitiesKnown(record[1]))
                => HealthIsCapacityRatio(record[1])

\* The part of C19 the code keeps: the default on the Linux and macOS paths,
\* and the capacity ratio on the Linux path.
C19_HealthDefaultsTo100OffWindows ==
    (probe = "returned" /\ record[1].present /\ host.system # "Windows") =>
        /\ NoHealthSource(host) => record[1].health_tenths = 1000
        /\ (host.system = "Linux" /\ BothCapacitiesKnown(record[1]))
                => HealthIsCapacityRatio(record[1])

C19_CapacityRatio ==
    /\ probe = "returned" /\ host.system = "Linux"
    /\ BothCapacitiesKnown(record[1])
    /\ record[1].health_tenths = 825

----------------------------------------------------------------------------
(* The vendor-CLI tier on the lines nvidia-smi prints: "na_temp" is a line *)
(* with '[N/A]' in the temperature, fan or power fields (guarded, lines     *)
(* 89-92), "na_mem" one with '[N/A]' in a memory or utilization field      *)
(* (lines 84-88, passed to float() as they are).                           *)

\* The invocations of the vendor-CLI tier in which nvidia-smi printed output.
SmiParsed ==
    {i \in 1..Len(gpu_invoked) : gpu_invoked[i].tier = "nvidia_smi" /\ ~gpu_env.smi.raises}

\* C20: in _try_nvidia_smi a field that is '[N/A]' is mapped to absent: every
\* 12-field line yields a record, whichever metric is '[N/A]' in it, with
\* that field absent, and the records of the other lines are returned too.
C20_NotAvailableMappedToAbsent ==
    \A i \in SmiParsed :
        LET lines == ParsedLines(gpu_env.smi.out)
            returned == gpu_invoked[i].returned
        IN  /\ Len(returned) = Len(lines)
            /\ \A k \in 1..Len(returned) :
                lines[k] = "na_temp" => returned[k].temperature = None

\* The part of C20 the code keeps: '[N/A]' in the temperature, fan or power
\* fields is mapped to None, when no memory or utilization field is '[N/A]'.
C20_OptionalMetricsMappedToAbsent ==
    \A i \in SmiParsed :
        (\A k \in 1..Len(gpu_env.smi.out) : gpu_env.smi.out[k] # "na_mem") =>
            LET lines == ParsedLines(gpu_env.smi.out)
                returned == gpu_invoked[i].returned
            IN  /\ Len(returned) = Len(lines)
                /\ \A k \in 1..Len(returned) :
                    lines[k] = "na_temp" => returned[k].temperature = None

C20_TemperatureAbsent ==
    \E i \in SmiParsed :
        /\ Len(gpu_invoked[i].returned) = 2
        /\ gpu_invoked[i].returned[1].temperature = None
        /\ gpu_invoked[i].returned[2].temperature # None

----------------------------------------------------------------------------
(* NetworkAnalyzer.collect on its own, on hosts whose psutil queries        *)
(* succeed: interfaces with several addresses of one family.                *)

Addresses ==
    {Addr("AF_INET", "10.0.0.1"), Addr("AF_INET", "10.0.0.2"),
     Addr("AF_LINK", "aa:aa"), Addr("AF_LINK", "bb:bb"),
     Addr("AF_INET6", "fe80::1")}

NetworkHosts ==
    [os_raises : {FALSE},
     interfaces : {<<>>}
        \cup {<<Interface("eth0", l)>> : l \in SeqsUpTo(Addresses, MaxAddrs)}
        \cup {<<Interface("eth0", l1), Interface("wlan0", l2)>> :
                l1 \in SeqsUpTo(Addresses, 1), l2 \in SeqsUpTo(Addresses, 1)}]

InitNetwork ==
    /\ host \in NetworkHosts
    /\ probe = "collect"
    /\ record = <<>>
    /\ IdleScore
    /\ IdleGpu
    /\ IdleMain

\* NetworkAnalyzer().collect()
CollectInterfaces ==
    /\ probe = "collect"
    /\ LET o == NetworkAnalyzer_collect(host)
       IN  IF o.raises
           THEN probe' = "raised" /\ UNCHANGED record
           ELSE probe' = "returned" /\ record' = <<o.out>>
    /\ UNCHANGED host
    /\ UNCHANGED scoreVars
    /\ UNCHANGED gpuVars
    /\ UNCHANGED mainVars

NextNetwork == CollectInterfaces

SpecNetwork == InitNetwork /\ [][NextNetwork]_vars

\* The first address of a family in an address list, 'N/A' if it has none.
FirstOfFamily(addrs, family) ==
    IF \E i \in 1..Len(addrs) : addrs[i].family = family
    THEN addrs[CHOOSE i \in 1..Len(addrs) :
                /\ addrs[i].family = family
                /\ \A j \in 1..(i - 1) : addrs[j].family # family].address
    ELSE "N/A"

\* C21: for every interface, collect reports the first address of each
\* family in the OS address list: ipv4_address is the first IPv4 address in
\* list order, mac_address the first link-layer address, and each is 'N/A'
\* when the list has no address of that family.
C21_FirstAddressPerFamily ==
    probe = "returned" =>
        /\ Len(record[1].interfaces) = Len(host.interfaces)
        /\ \A k \in 1..Len(host.interfaces) :
            /\ record[1].interfaces[k].name = host.interfaces[k].name
            /\ record[1].interfaces[k].ipv4_address
                    = FirstOfFamily(host.interfaces[k].addrs, "AF_INET")
            /\ record[1].interfaces[k].mac_address
                    = FirstOfFamily(host.interfaces[k].addrs, "AF_LINK")

\* The number of addresses of a family in an address list.
CountOfFamily(addrs, family) ==
    Cardinality({i \in 1..Len(addrs) : addrs[i].family = family})

\* The part of C21 the code keeps: one address per family is reported, the
\* only one when the list has one, 'N/A' when it has none.
C21_SingleAddressPerFamily ==
    probe = "returned" =>
        /\ Len(record[1].interfaces) = Len(host.interfaces)
        /\ \A k \in 1..Len(host.interfaces) :
            LET addrs == host.interfaces[k].addrs
            IN  /\ CountOfFamily(addrs, "AF_INET") <= 1 =>
                    record[1].interfaces[k].ipv4_address = FirstOfFamily(addrs, "AF_INET")
                /\ CountOfFamily(addrs, "AF_LINK") <= 1 =>
                    record[1].interfaces[k].mac_address = FirstOfFamily(addrs, "AF_LINK")

C21_OneOfEachFamily ==
    /\ probe = "returned"
    /\ Len(record[1].interfaces) = 1
    /\ record[1].interfaces[1].ipv4_address = "10.0.0.2"
    /\ record[1].interfaces[1].mac_address = "bb:bb"
    /\ CountOfFamily(host.interfaces[1].addrs, "AF_INET") = 1

----------------------------------------------------------------------------
(* StorageAnalyzer.collect on hosts with and without smartctl, each disk's  *)
(* smartctl run ending in its own way.                                      *)

SmartHosts ==
    [os_raises : {FALSE}, system : {"Linux"},
     mounts : SeqsUpTo(MountsOf({Dev(<<"s", "d", "a", "1">>), Dev(<<"s", "d", "b", "1">>)},
                                {119994}, {50}), MaxMounts),
     smartctl : {Smartctl(installed, runs) :
                    installed \in BOOLEAN, runs \in [1..MaxMounts -> SmartctlRuns]}]

InitSmart ==
    /\ host \in SmartHosts
    /\ probe = "collect"
    /\ record = <<>>
    /\ IdleScore
    /\ IdleGpu
    /\ IdleMain

SpecSmart == InitSmart /\ [][NextStorage]_vars

NotInstalledStatus == "N/A (smartctl not installed)"

\* The smartctl run on the i-th disk failed or gave no verdict.
RunWithoutVerdict(i) ==
    \/ host.smartctl.runs[i].kind \in {"timeout", "nonzero_exit"}
    \/ /\ host.smartctl.runs[i].kind = "output"
       /\ ~host.smartctl.runs[i].passed
       /\ ~host.smartctl.runs[i].failed

\* C22: SMART status distinguishes 'tool not installed' from failure.  For
\* every disk returned, smart_status is the not-installed value if and only
\* if smartctl is absent, in which case no run is consulted (no temperature
\* is read from one); and when smartctl is present and its run times out,
\* exits non-zero or prints neither PASSED nor FAILED, smart_status differs
\* from the not-installed value, from PASSED and from FAILED.
C22_NotInstalledToldFromFailure ==
    probe = "returned" =>
        \A i \in 1..Len(record[1]) :
            /\ record[1][i].smart_status = NotInstalledStatus <=> ~host.smartctl.installed
            /\ ~host.smartctl.installed => record[1][i].smart_temperature = None
            /\ (host.smartctl.installed /\ RunWithoutVerdict(i)) =>
                    record[1][i].smart_status \notin {NotInstalledStatus, "PASSED", "FAILED"}

C22_TimeoutAndNoVerdict ==
    /\ probe = "returned"
    /\ Len(record[1]) = 2
    /\ host.smartctl.installed
    /\ host.smartctl.runs[1].kind = "timeout"
    /\ host.smartctl.runs[2] = SmartctlRun("output", FALSE, FALSE, None)
    /\ record[1][1].smart_status = "N/A"
    /\ record[1][2].smart_status = "Unknown"

----------------------------------------------------------------------------
(* CPUAnalyzer._get_cpu_temp on its own: the sensor query raises, or        *)
(* returns groups that are missing, empty or hold readings (in hundredths   *)
(* of a degree).                                                            *)

\* The readings of a group whose first sensor reads first.
ReadingsFrom(first) ==
    {[i \in 1..n |-> first + 1000 * (i - 1)] : n \in 1..MaxReadings}

GroupStates(first) == {None, Some(<<>>)} \cup {Some(l) : l \in ReadingsFrom(first)}

SensorHosts ==
    {Raises}
    \cup {Returns(temps) : temps \in
            [coretemp : GroupStates(4525), cpu_thermal : GroupStates(5049),
             k10temp : GroupStates(6180), acpitz : GroupStates(2775),
             nvme : {None, Some(<<3385>>)}]}

InitTemp ==
    /\ host \in SensorHosts
    /\ probe = "get_cpu_temp"
    /\ record = <<>>
    /\ IdleScore
    /\ IdleGpu
    /\ IdleMain

\* data.temperature = self._get_cpu_temp()
GetCpuTemp ==
    /\ probe = "get_cpu_temp"
    /\ record' = <<get_cpu_temp(host)>>
    /\ probe' = "returned"
    /\ UNCHANGED host
    /\ UNCHANGED scoreVars
    /\ UNCHANGED gpuVars
    /\ UNCHANGED mainVars

NextTemp == GetCpuTemp

SpecTemp == InitTemp /\ [][NextTemp]_vars

PriorityOrder == <<"coretemp", "cpu_thermal", "k10temp", "acpitz">>

\* The sensor query returned group g with at least one reading.
GroupAvailable(g) ==
    /\ ~host.raises
    /\ host.out[g] # None
    /\ host.out[g][1] # <<>>

\* C23: _get_cpu_temp returns the temperature (first reading, to one
\* decimal) of the first group in the order coretemp, cpu_thermal, k10temp,
\* acpitz that is present with at least one reading, a lower-priority group
\* being used only if every higher-priority one is missing or empty; it
\* returns None when none of the four is available or the query raises.
C23_FirstAvailableGroupInPriorityOrder ==
    probe = "returned" =>
        /\ \A k \in 1..Len(PriorityOrder) :
            (/\ GroupAvailable(PriorityOrder[k])
             /\ \A j \in 1..(k - 1) : ~GroupAvailable(PriorityOrder[j]))
            => record[1] = Some(Round1(host.out[PriorityOrder[k]][1][1]))
        /\ (\A k \in 1..Len(PriorityOrder) : ~GroupAvailable(PriorityOrder[k]))
            => record[1] = None

C23_LowerPriorityGroupUsed ==
    /\ probe = "returned"
    /\ ~host.raises
    /\ host.out.coretemp = Some(<<>>)
    /\ host.out.cpu_thermal = None
    /\ host.out.k10temp = Some(<<6180, 7180>>)
    /\ host.out.acpitz = Some(<<2775>>)
    /\ record[1] = Some(618)

C23_NoneOfTheFour ==
    /\ probe = "returned"
    /\ ~host.raises
    /\ host.out.nvme # None
    /\ record[1] = None

----------------------------------------------------------------------------
(* MemoryAnalyzer.collect on hosts that differ in the byte counters of      *)
(* psutil.virtual_memory(): used and free up to MaxMilli thousandths of a   *)
(* GB, the total exceeding their sum by up to MaxSlack thousandths.         *)

MemorySizeHosts ==
    {[os_raises |-> FALSE, vm |-> VirtualMemory(used + free + slack, used, free),
      usage_percent |-> 50, system |-> "Other", tool |-> Raises] :
        used \in 0..MaxMilli, free \in 0..MaxMilli, slack \in 0..MaxSlack}

InitMemorySizes ==
    /\ host \in MemorySizeHosts
    /\ probe = "collect"
    /\ record = <<>>
    /\ IdleScore
    /\ IdleGpu
    /\ IdleMain

SpecMemorySizes == InitMemorySizes /\ [][NextMemory]_vars

\* C24: for every MemoryData returned by collect on counters with
\* used + free <= total, used_gb + free_gb <= total_gb + 0.01, the three
\* fields being the counters in GB, each rounded to two decimals on its own
\* (here counted in hundredths of a GB).
C24_UsedPlusFreeWithinOneHundredth ==
    (probe = "returned" /\ host.vm.used + host.vm.free <= host.vm.total) =>
        /\ record[1].total_gb = Round2(host.vm.total)
        /\ record[1].used_gb = Round2(host.vm.used)
        /\ record[1].free_gb = Round2(host.vm.free)
        /\ record[1].used_gb + record[1].free_gb <= record[1].total_gb + 1

\* The bound is met: 0.006 + 0.006 = 0.012 GB is reported as 0.01 + 0.01 and
\* a total of 0.01.
C24_OneHundredthOver ==
    /\ probe = "returned"
    /\ host.vm = VirtualMemory(12, 6, 6)
    /\ record[1].used_gb + record[1].free_gb = record[1].total_gb + 1

====
